---- MODULE Spec2Model ----
(***************************************************************************)
(* Model of the evaluation engine of match-analysis (src/evaluate.py):     *)
(* athlete normalisation, the greedy event matcher, and the metrics        *)
(* computed from the alignment, run as the pipeline of evaluate().         *)
(*                                                                         *)
(* Python values are tagged records [t, n, s]:                             *)
(*   t = "none"     None (a JSON null)                                     *)
(*   t = "int"      the integer n                                          *)
(*   t = "str"      the string s, a sequence of characters                 *)
(*   t = "missing"  no value: the dict has no such key                     *)
(*   t = an exception name: the call raised it                             *)
(* A dict is a record over the keys the code reads, a key the dict does    *)
(* not have holding Missing. Strings are over ASCII; a character is a      *)
(* one-character string, and a control character TLA+ has no escape for    *)
(* is written as its Python escape ("\\x0b", "\\x1c", ...).                *)
(* Rates (precision, recall, ...) are exact fractions [num, den] in lowest *)
(* terms; the code computes them in floating point.                        *)
(***************************************************************************)
EXTENDS Integers, Sequences, FiniteSets

VARIABLES
    pc,                 \* position in evaluate()
    gt_data,            \* the ground-truth document
    result_data,        \* the prediction document
    clock_tolerance,    \* evaluate's clock_tolerance argument
    gt_events,          \* normalised ground-truth events
    pred_events,        \* normalised prediction events
    gt_idx,             \* match_events: index of the next ground-truth event (0-based)
    used_pred_indices,  \* match_events: consumed prediction indices (0-based)
    matches,            \* match_events: the alignment built so far
    report,             \* the sections of the metrics document computed so far
    err                 \* the exception that ended evaluate(), or "none"

vars == <<pc, gt_data, result_data, clock_tolerance, gt_events, pred_events,
          gt_idx, used_pred_indices, matches, report, err>>

----------------------------------------------------------------------------
(* Python values *)

PyNone == [t |-> "none", n |-> 0, s |-> <<>>]

PyInt(k) == [t |-> "int", n |-> k, s |-> <<>>]

PyStr(chars) == [t |-> "str", n |-> 0, s |-> chars]

Raised(kind) == [t |-> kind, n |-> 0, s |-> <<>>]

IsRaised(v) ==
    v.t \in {"ValueError", "AttributeError", "IndexError", "TypeError", "OverflowError"}

\* bool(v) for None, an integer or a string
Truthy(v) ==
    CASE v.t = "none" -> FALSE
      [] v.t = "int" -> v.n # 0
      [] v.t = "str" -> v.s # <<>>
      [] OTHER -> FALSE

\* the value of a key the dict does not have
Missing == [t |-> "missing", n |-> 0, s |-> <<>>]

\* dict.get(key, default): the default for a missing key only, so a key that
\* holds None gives None
GetOr(v, default) == IF v = Missing THEN default ELSE v

\* dict.get(key): None for a missing key
Get(v) == GetOr(v, PyNone)

----------------------------------------------------------------------------
(* Strings *)

\* the ASCII characters str.split() separates on: space, \t, \n, \r, \f,
\* \x0b and the separators \x1c..\x1f
Whitespace == {" ", "\t", "\n", "\r", "\f", "\\x0b", "\\x1c", "\\x1d", "\\x1e", "\\x1f"}

\* the ASCII characters int() strips from the two ends of its argument
IntWhitespace == {" ", "\t", "\n", "\r", "\f", "\\x0b"}

DigitChars == <<"0", "1", "2", "3", "4", "5", "6", "7", "8", "9">>

IsDigit(c) == \E i \in 1..10 : DigitChars[i] = c

DigitVal(c) == (CHOOSE i \in 1..10 : DigitChars[i] = c) - 1

\* s without its leading characters of the set space
RECURSIVE LStrip(_, _)
LStrip(s, space) ==
    IF s # <<>> /\ Head(s) \in space THEN LStrip(Tail(s), space) ELSE s

\* s without its trailing characters of the set space
RECURSIVE RStrip(_, _)
RStrip(s, space) ==
    IF s # <<>> /\ s[Len(s)] \in space
    THEN RStrip(SubSeq(s, 1, Len(s) - 1), space)
    ELSE s

\* s without the whitespace int() ignores at its two ends
Strip(s) == RStrip(LStrip(s, IntWhitespace), IntWhitespace)

\* the value of a string of decimal digits, underscores skipped
RECURSIVE DigitsValue(_, _)
DigitsValue(s, acc) ==
    IF s = <<>> THEN acc
    ELSE IF Head(s) = "_" THEN DigitsValue(Tail(s), acc)
    ELSE DigitsValue(Tail(s), 10 * acc + DigitVal(Head(s)))

\* the most digits int() converts: sys.int_info.default_max_str_digits of the
\* interpreter (CPython 3.11); a longer string is refused with ValueError
MaxStrDigits == 4300

\* the number of digits of s, underscores not counted
DigitCount(s) == Cardinality({i \in 1..Len(s) : IsDigit(s[i])})

\* digits, with single underscores allowed between two digits, and no more
\* digits than int() converts
IsDigitString(s) ==
    /\ s # <<>>
    /\ \A i \in 1..Len(s) :
          \/ IsDigit(s[i])
          \/ /\ s[i] = "_"
             /\ i > 1 /\ i < Len(s)
             /\ IsDigit(s[i - 1]) /\ IsDigit(s[i + 1])
    /\ DigitCount(s) <= MaxStrDigits

\* the positions of s that hold neither a zero nor an underscore
NonZeroPositions(s) == {i \in 1..Len(s) : s[i] \notin {"0", "_"}}

\* s from its first position in `positions` on, nothing when there is none
FromFirst(s, positions) ==
    IF positions = {} THEN <<>>
    ELSE SubSeq(s, CHOOSE i \in positions : \A j \in positions : i <= j, Len(s))

\* s without its leading zeros, which add nothing to its value
Significant(s) == FromFirst(s, NonZeroPositions(s))

\* int() of a sign and the characters after it: the integer, or ValueError
SignedDigits(sign, digits) ==
    IF ~IsDigitString(digits) THEN Raised("ValueError")
    ELSE IF sign = "-" THEN PyInt(0 - DigitsValue(Significant(digits), 0))
    ELSE PyInt(DigitsValue(Significant(digits), 0))

\* int() of a string without surrounding whitespace
IntOfStripped(body) ==
    IF body # <<>> /\ Head(body) \in {"+", "-"}
    THEN SignedDigits(Head(body), Tail(body))
    ELSE SignedDigits("+", body)

\* int(s) for a string s: the integer, or ValueError
IntOfStr(s) == IntOfStripped(Strip(s))

\* the decimal digits of n >= 0
RECURSIVE NatToStr(_)
NatToStr(n) ==
    IF n < 10 THEN <<DigitChars[n + 1]>>
    ELSE NatToStr(n \div 10) \o <<DigitChars[(n % 10) + 1]>>

\* str(v) for None, an integer or a string
StrOf(v) ==
    CASE v.t = "none" -> <<"N", "o", "n", "e">>
      [] v.t = "int" -> IF v.n < 0 THEN <<"-">> \o NatToStr(0 - v.n) ELSE NatToStr(v.n)
      [] OTHER -> v.s

\* sub in s, for two strings
Contains(s, sub) ==
    \E i \in 0..(Len(s) - Len(sub)) : SubSeq(s, i + 1, i + Len(sub)) = sub

\* the positions of sep in s
SepPositions(s, sep) == {i \in 1..Len(s) : s[i] = sep}

\* the end of the first token of a string that starts with it
TokenEnd(body) ==
    IF \E i \in 1..Len(body) : body[i] \in Whitespace
    THEN (CHOOSE i \in 1..Len(body) :
             /\ body[i] \in Whitespace
             /\ \A j \in 1..(i - 1) : body[j] \notin Whitespace) - 1
    ELSE Len(body)

\* the first token of a string without leading whitespace
FirstTokenOf(body) ==
    IF body = <<>> THEN Raised("IndexError")
    ELSE PyStr(SubSeq(body, 1, TokenEnd(body)))

\* s.split()[0]: the first whitespace-delimited token, IndexError when s has none
FirstToken(s) == FirstTokenOf(LStrip(s, Whitespace))

----------------------------------------------------------------------------
(* parse_clock *)

\* the value of int(...) inside parse_clock's try: ValueError becomes None
IntOrNone(v) == IF IsRaised(v) THEN PyNone ELSE v

\* line 212: int(parts[0]) * 60 + int(parts[1])
ClockOfParts(mins, secs) ==
    IF IsRaised(mins) \/ IsRaised(secs) THEN PyNone
    ELSE PyInt(mins.n * 60 + secs.n)

\* clock_str.split(":") of a string with one colon, at position k
SplitClock(chars, k) ==
    ClockOfParts(IntOfStr(SubSeq(chars, 1, k - 1)),
                 IntOfStr(SubSeq(chars, k + 1, Len(chars))))

\* parse_clock(clock_str): seconds as PyInt, or PyNone
parse_clock(clock_str) ==
    IF ~Truthy(clock_str) THEN PyNone
    ELSE IF clock_str.t # "str" THEN PyNone      \* .split: AttributeError, caught
    ELSE IF Cardinality(SepPositions(clock_str.s, ":")) = 1
    THEN SplitClock(clock_str.s, CHOOSE i \in SepPositions(clock_str.s, ":") : TRUE)
    ELSE IntOrNone(IntOfStr(clock_str.s))

----------------------------------------------------------------------------
(* normalize_athlete, normalize_events *)

One == PyStr(<<"1">>)

Two == PyStr(<<"2">>)

\* tok in str(athlete), as PyInt(1) or PyInt(0); an exception in tok is passed on
TokenIn(tok, athlete) ==
    IF IsRaised(tok) THEN tok
    ELSE IF Contains(StrOf(athlete), tok.s) THEN PyInt(1) ELSE PyInt(0)

\* the fallback test of one name: name is truthy and its first token occurs in
\* str(athlete) (IndexError when the name holds whitespace only, AttributeError
\* when the name is truthy and not a string: it has no split)
FirstNameIn(name, athlete) ==
    IF ~Truthy(name) THEN PyInt(0)
    ELSE IF name.t # "str" THEN Raised("AttributeError")
    ELSE TokenIn(FirstToken(name.s), athlete)

\* lines 44-46, given the outcome of the test of athlete_2_name
FallbackSecond(second) ==
    IF IsRaised(second) THEN second
    ELSE IF second = PyInt(1) THEN Two
    ELSE One

\* a mutant of FallbackFirst: the test of athlete_2_name decides before that
\* of athlete_1_name
FallbackSecondBeforeFirst(first, athlete, athlete_2_name) ==
    IF IsRaised(first) THEN first
    ELSE IF IsRaised(FirstNameIn(athlete_2_name, athlete))
    THEN FirstNameIn(athlete_2_name, athlete)
    ELSE IF FirstNameIn(athlete_2_name, athlete) = PyInt(1) THEN Two
    ELSE One

\* lines 42-46, given the outcome of the test of athlete_1_name
FallbackFirst(first, athlete, athlete_2_name) ==
    IF IsRaised(first) THEN first
    ELSE IF first = PyInt(1) THEN One
    ELSE FallbackSecond(FirstNameIn(athlete_2_name, athlete))

\* a mutant of normalize_athlete: the literal "1"/"2" rule (lines 31-32) is left out
normalize_athlete_no_literal(athlete, athlete_1_name, athlete_2_name) ==
    IF athlete \in {PyInt(1), PyInt(2)} THEN PyStr(StrOf(athlete))
    ELSE IF athlete = athlete_1_name THEN One
    ELSE IF athlete = athlete_2_name THEN Two
    ELSE FallbackFirst(FirstNameIn(athlete_1_name, athlete), athlete, athlete_2_name)

normalize_athlete(athlete, athlete_1_name, athlete_2_name) ==
    IF athlete \in {One, Two} THEN athlete
    ELSE IF athlete \in {PyInt(1), PyInt(2)} THEN PyStr(StrOf(athlete))
    ELSE IF athlete = athlete_1_name THEN One
    ELSE IF athlete = athlete_2_name THEN Two
    ELSE FallbackFirst(FirstNameIn(athlete_1_name, athlete), athlete, athlete_2_name)

\* normalize_events: every event with its athlete replaced by the
\* normalisation of e.get("athlete"); an element whose normalisation raised
\* carries the exception as its athlete
normalize_events(events, athlete_1_name, athlete_2_name) ==
    [i \in 1..Len(events) |->
        [events[i] EXCEPT !.athlete =
            normalize_athlete(Get(events[i].athlete), athlete_1_name, athlete_2_name)]]

\* the exception normalize_events raises (that of the first failing event), or "none"
NormalizeError(events) ==
    IF \A i \in 1..Len(events) : ~IsRaised(events[i].athlete) THEN "none"
    ELSE events[CHOOSE i \in 1..Len(events) :
                   /\ IsRaised(events[i].athlete)
                   /\ \A j \in 1..(i - 1) : ~IsRaised(events[j].athlete)].athlete.t

----------------------------------------------------------------------------
(* match_events *)

Abs(x) == IF x < 0 THEN 0 - x ELSE x

EmptyStr == PyStr(<<>>)

\* line 76, line 87: the event's clock in seconds, or PyNone
ClockOf(event) == parse_clock(GetOr(event.match_clock, EmptyStr))

\* a mutant of StampOf: an event without timestamp_seconds counts as second 100
StampOfFarAway(event) == GetOr(event.timestamp_seconds, PyInt(100))

\* lines 91-92: the value of the event's timestamp_seconds, 0 when the key is
\* missing
StampOf(event) == GetOr(event.timestamp_seconds, PyInt(0))

\* abs(a - b): an integer for two integers, TypeError when one of the two is
\* None or a string
AbsDiff(a, b) ==
    IF a.t = "int" /\ b.t = "int" THEN PyInt(Abs(a.n - b.n)) ELSE Raised("TypeError")

\* a mutant of TimeDiffOf: a pair with an unparsable clock counts as simultaneous
TimeDiffNoFallback(gt_clock, pred_clock, gt_time, pred_time) ==
    IF gt_clock = PyNone \/ pred_clock = PyNone
    THEN PyInt(0)
    ELSE AbsDiff(gt_clock, pred_clock)

\* lines 89-95: by the clocks when both parsed, else by the timestamps
TimeDiffOf(gt_clock, pred_clock, gt_time, pred_time) ==
    IF gt_clock = PyNone \/ pred_clock = PyNone
    THEN AbsDiff(gt_time, pred_time)
    ELSE AbsDiff(gt_clock, pred_clock)

\* the time difference of a ground-truth event and a candidate prediction, as
\* PyInt, or the TypeError of line 93
TimeDiff(gt_event, pred_event) ==
    TimeDiffOf(ClockOf(gt_event), ClockOf(pred_event),
               StampOf(gt_event), StampOf(pred_event))

\* a mutant of Candidate: the athlete check (line 83) is left out
CandidateAnyAthlete(gt_event, pred_event, pred_idx, used) ==
    pred_idx \notin used

\* a mutant of Candidate: the consumed check (line 79) is left out
CandidateIgnoreUsed(gt_event, pred_event, pred_idx, used) ==
    Get(gt_event.athlete) = Get(pred_event.athlete)

\* lines 79-84: the scan considers pred_idx when it is unconsumed and of the same athlete
Candidate(gt_event, pred_event, pred_idx, used) ==
    /\ pred_idx \notin used
    /\ Get(gt_event.athlete) = Get(pred_event.athlete)

\* a mutant of Improves: the last qualifying candidate wins, not the closest
ImprovesLast(time_diff, tolerance, best) ==
    time_diff <= tolerance

\* a mutant of Improves: a candidate as close as the best so far replaces it
ImprovesOnTie(time_diff, tolerance, best) ==
    /\ time_diff <= tolerance
    /\ (best.idx = PyNone \/ time_diff <= best.diff)

\* a mutant of Improves: the closest candidate wins, however far it is
ImprovesAnyDistance(time_diff, tolerance, best) ==
    best.idx = PyNone \/ time_diff < best.diff

\* line 97: the candidate becomes the best when it is within tolerance and
\* strictly closer than the best so far (best_time_diff is infinite while
\* best.idx is PyNone)
Improves(time_diff, tolerance, best) ==
    /\ time_diff <= tolerance
    /\ (best.idx = PyNone \/ time_diff < best.diff)

\* a mutant of NewBest: a candidate as close as the best so far replaces it
NewBestOrEqual(best, pred_idx, time_diff, tolerance) ==
    IF time_diff <= tolerance /\ (best.idx = PyNone \/ time_diff <= best.diff)
    THEN [idx |-> PyInt(pred_idx), diff |-> time_diff]
    ELSE best

\* lines 97-99: the best after a candidate at time_diff was considered
NewBest(best, pred_idx, time_diff, tolerance) ==
    IF Improves(time_diff, tolerance, best)
    THEN [idx |-> PyInt(pred_idx), diff |-> time_diff]
    ELSE best

\* lines 89-99 for one candidate: the best after it, or, when its time
\* difference raised, the exception in place of the index
Consider(best, pred_idx, time_diff, tolerance) ==
    IF IsRaised(time_diff) THEN [idx |-> time_diff, diff |-> 0]
    ELSE NewBest(best, pred_idx, time_diff.n, tolerance)

\* the inner loop of match_events from pred_idx on: best is [idx, diff]; the
\* loop ends at the first candidate whose time difference raises
RECURSIVE ScanPreds(_, _, _, _, _, _)
ScanPreds(gt_event, preds, used, tolerance, pred_idx, best) ==
    IF pred_idx >= Len(preds) \/ IsRaised(best.idx) THEN best
    ELSE ScanPreds(gt_event, preds, used, tolerance, pred_idx + 1,
            IF Candidate(gt_event, preds[pred_idx + 1], pred_idx, used)
            THEN Consider(best, pred_idx, TimeDiff(gt_event, preds[pred_idx + 1]), tolerance)
            ELSE best)

BestPred(gt_event, preds, used, tolerance) ==
    ScanPreds(gt_event, preds, used, tolerance, 0, [idx |-> PyNone, diff |-> 0])

MatchResult(gt_index, pred_index, gt_event, pred_event) ==
    [gt_index |-> gt_index, pred_index |-> pred_index,
     gt_event |-> gt_event, pred_event |-> pred_event]

\* lines 101-116: the pairing appended for a ground-truth event, given
\* best_pred_idx; the exception when the scan raised
PairingOf(gt_index, gt_event, best_pred_idx, preds) ==
    IF IsRaised(best_pred_idx) THEN best_pred_idx
    ELSE IF best_pred_idx # PyNone
    THEN MatchResult(PyInt(gt_index), best_pred_idx, gt_event, preds[best_pred_idx.n + 1])
    ELSE MatchResult(PyInt(gt_index), PyNone, gt_event, PyNone)

\* the pairing match_events appends for ground-truth event gt_index, or the
\* TypeError its scan raised
GtPairing(gts, preds, used, tolerance, gt_index) ==
    PairingOf(gt_index, gts[gt_index + 1],
              BestPred(gts[gt_index + 1], preds, used, tolerance).idx, preds)

\* a mutant of UsedAfter: only the prediction consumed last is remembered
UsedAfterForgetful(used, m) ==
    IF m.pred_index # PyNone THEN {m.pred_index.n} ELSE used

\* line 102: used_pred_indices after pairing m was appended
UsedAfter(used, m) ==
    IF m.pred_index # PyNone THEN used \cup {m.pred_index.n} ELSE used

\* a mutant of FalsePositiveAt: every prediction is listed, consumed or not
FalsePositiveAlways(preds, used, pred_idx) ==
    <<MatchResult(PyNone, PyInt(pred_idx), PyNone, preds[pred_idx + 1])>>

\* lines 120-126: the pairing appended for pred_idx after the ground-truth loop
FalsePositiveAt(preds, used, pred_idx) ==
    IF pred_idx \in used THEN <<>>
    ELSE <<MatchResult(PyNone, PyInt(pred_idx), PyNone, preds[pred_idx + 1])>>

\* the false positives appended after the ground-truth loop, from pred_idx on
RECURSIVE FalsePositives(_, _, _)
FalsePositives(preds, used, pred_idx) ==
    IF pred_idx >= Len(preds) THEN <<>>
    ELSE FalsePositiveAt(preds, used, pred_idx) \o FalsePositives(preds, used, pred_idx + 1)

\* the ground-truth loop of match_events from gt_index on, as one function:
\* the alignment, or Raised("TypeError")
RECURSIVE GtLoop(_, _, _, _, _, _)
GtLoop(gts, preds, tolerance, gt_index, used, acc) ==
    IF gt_index >= Len(gts) THEN acc \o FalsePositives(preds, used, 0)
    ELSE IF GtPairing(gts, preds, used, tolerance, gt_index) = Raised("TypeError")
    THEN Raised("TypeError")
    ELSE GtLoop(gts, preds, tolerance, gt_index + 1,
                UsedAfter(used, GtPairing(gts, preds, used, tolerance, gt_index)),
                Append(acc, GtPairing(gts, preds, used, tolerance, gt_index)))

match_events(gts, preds, tolerance) == GtLoop(gts, preds, tolerance, 0, {}, <<>>)

----------------------------------------------------------------------------
(* Rates: exact fractions in lowest terms *)

RECURSIVE Gcd(_, _)
Gcd(a, b) == IF b = 0 THEN a ELSE Gcd(b, a % b)

\* the fraction num/den (den > 0, num >= 0) in lowest terms
Frac(num, den) ==
    LET g == Gcd(num, den) IN [num |-> num \div g, den |-> den \div g]

FZero == [num |-> 0, den |-> 1]

FOne == [num |-> 1, den |-> 1]

FAdd(a, b) == Frac(a.num * b.den + b.num * a.den, a.den * b.den)

FMul(a, b) == Frac(a.num * b.num, a.den * b.den)

\* a / b, b > 0
FDiv(a, b) == Frac(a.num * b.den, a.den * b.num)

FLeq(a, b) == a.num * b.den <= b.num * a.den

----------------------------------------------------------------------------
(* Metrics over an alignment *)

\* bool(event) for an event dict or None: a dict is true when it has a key,
\* whatever the key holds
EventTruthy(e) ==
    /\ e # PyNone
    /\ \E k \in DOMAIN e : e[k] # Missing

\* m.gt_event and m.pred_event
BothPresent(m) == EventTruthy(m.gt_event) /\ EventTruthy(m.pred_event)

\* [m for m in matches if m.gt_event and m.pred_event]
RECURSIVE Matched(_)
Matched(ms) ==
    IF ms = <<>> THEN <<>>
    ELSE (IF BothPresent(Head(ms)) THEN <<Head(ms)>> ELSE <<>>) \o Matched(Tail(ms))

\* line 133
TruePositives(ms) == Cardinality({i \in 1..Len(ms) : BothPresent(ms[i])})

\* line 134
FalseNegatives(ms) ==
    Cardinality({i \in 1..Len(ms) :
        EventTruthy(ms[i].gt_event) /\ ~EventTruthy(ms[i].pred_event)})

\* line 135
FalsePositiveCount(ms) ==
    Cardinality({i \in 1..Len(ms) :
        ~EventTruthy(ms[i].gt_event) /\ EventTruthy(ms[i].pred_event)})

\* a mutant of Precision: the denominator is TP + FN
PrecisionOverGt(tp, fn, fp) == IF tp + fn > 0 THEN Frac(tp, tp + fn) ELSE FZero

\* line 137
Precision(tp, fn, fp) == IF tp + fp > 0 THEN Frac(tp, tp + fp) ELSE FZero

\* a mutant of Recall: with no ground-truth event at all the recall is 1
RecallOneWhenUndefined(tp, fn, fp) == IF tp + fn > 0 THEN Frac(tp, tp + fn) ELSE FOne

\* line 138
Recall(tp, fn, fp) == IF tp + fn > 0 THEN Frac(tp, tp + fn) ELSE FZero

\* line 139
F1(precision, recall) ==
    IF precision.num > 0 \/ recall.num > 0
    THEN FDiv(FMul(Frac(2, 1), FMul(precision, recall)), FAdd(precision, recall))
    ELSE FZero

\* lines 141-148
DetectionOf(tp, fn, fp, precision, recall) ==
    [true_positives |-> tp, false_negatives |-> fn, false_positives |-> fp,
     precision |-> precision, recall |-> recall, f1 |-> F1(precision, recall)]

DetectionOfCounts(tp, fn, fp) ==
    DetectionOf(tp, fn, fp, Precision(tp, fn, fp), Recall(tp, fn, fp))

compute_detection_metrics(ms) ==
    DetectionOfCounts(TruePositives(ms), FalseNegatives(ms), FalsePositiveCount(ms))

\* the fields compute_field_accuracy compares, in its order
fields == <<"points_change", "advantages_change", "penalties_change", "action",
            "running_score", "running_advantages", "running_penalties", "match_clock">>

ClockFieldTolerance == 5

\* lines 187-190: the comparison of two clocks, given their parsed seconds
ClockOutcome(gt_seconds, pred_seconds) ==
    IF pred_seconds = PyNone THEN "wrong"
    ELSE IF gt_seconds = PyNone THEN "TypeError"      \* abs(None - int)
    ELSE IF Abs(gt_seconds.n - pred_seconds.n) <= ClockFieldTolerance THEN "correct"
    ELSE "wrong"

\* a mutant of ValueOutcome: a ground-truth value is skipped when it is falsy
\* (0 included), not only when it is None or ""
ValueOutcomeSkipFalsy(field, gt_val, pred_val) ==
    IF ~Truthy(gt_val) THEN "skip"
    ELSE IF field = "match_clock"
    THEN ClockOutcome(parse_clock(gt_val),
                      IF Truthy(pred_val) THEN parse_clock(pred_val) ELSE PyNone)
    ELSE IF gt_val = pred_val THEN "correct"
    ELSE "wrong"

\* lines 180-193: the comparison of a ground-truth value and a predicted value:
\* "skip" (no ground-truth value), "correct", "wrong", or "TypeError"
ValueOutcome(field, gt_val, pred_val) ==
    IF gt_val = PyNone \/ gt_val = EmptyStr THEN "skip"
    ELSE IF field = "match_clock"
    THEN ClockOutcome(parse_clock(gt_val),
                      IF Truthy(pred_val) THEN parse_clock(pred_val) ELSE PyNone)
    ELSE IF gt_val = pred_val THEN "correct"
    ELSE "wrong"

\* lines 177-178: one matched pairing's comparison on one field, of the two
\* values .get(field) gives
FieldOutcome(m, field) ==
    ValueOutcome(field, Get(m.gt_event[field]), Get(m.pred_event[field]))

FieldCount(matched, field, outcomes) ==
    Cardinality({i \in 1..Len(matched) : FieldOutcome(matched[i], field) \in outcomes})

\* lines 196-200
FieldStats(correct, total) ==
    [correct |-> correct, total |-> total, accuracy |-> Frac(correct, total)]

\* lines 169-202, over the matched pairings: the dict of the fields with an
\* eligible pairing, or Raised("TypeError")
FieldAccuracyOf(matched) ==
    IF \E k \in 1..Len(fields) : FieldCount(matched, fields[k], {"TypeError"}) > 0
    THEN Raised("TypeError")
    ELSE [f \in {fields[k] : k \in {j \in 1..Len(fields) :
                    FieldCount(matched, fields[j], {"correct", "wrong"}) > 0}} |->
             FieldStats(FieldCount(matched, f, {"correct"}),
                        FieldCount(matched, f, {"correct", "wrong"}))]

compute_field_accuracy(ms) == FieldAccuracyOf(Matched(ms))

\* a mutant of ClockErrorOf: a pairing with a clock that did not parse counts
\* with error 0
ClockErrorOrZero(gt_clock, pred_clock) ==
    IF gt_clock # PyNone /\ pred_clock # PyNone
    THEN <<Abs(gt_clock.n - pred_clock.n)>>
    ELSE <<0>>

\* lines 230-231: the error of one pairing, when both clocks parsed
ClockErrorOf(gt_clock, pred_clock) ==
    IF gt_clock # PyNone /\ pred_clock # PyNone
    THEN <<Abs(gt_clock.n - pred_clock.n)>>
    ELSE <<>>

\* the clock errors of the matched pairings whose two clocks parse, in order
RECURSIVE ClockErrors(_)
ClockErrors(matched) ==
    IF matched = <<>> THEN <<>>
    ELSE ClockErrorOf(ClockOf(Head(matched).gt_event), ClockOf(Head(matched).pred_event))
         \o ClockErrors(Tail(matched))

RECURSIVE SumSeq(_)
SumSeq(xs) == IF xs = <<>> THEN 0 ELSE Head(xs) + SumSeq(Tail(xs))

SeqMax(xs) == CHOOSE x \in {xs[i] : i \in 1..Len(xs)} : \A j \in 1..Len(xs) : xs[j] <= x

SeqMin(xs) == CHOOSE x \in {xs[i] : i \in 1..Len(xs)} : \A j \in 1..Len(xs) : x <= xs[j]

EmptyDict == [k \in {} |-> 0]

\* n \div 2^k, by halving k times, or until nothing is left
RECURSIVE ShiftRight(_, _)
ShiftRight(n, k) ==
    IF k = 0 \/ n = 0 THEN n ELSE ShiftRight(n \div 2, k - 1)

\* line 237, total / count for total >= 0 and count > 0: the quotient is a
\* float, and one that rounds beyond the largest float raises OverflowError,
\* which is every quotient from 2^1024 - 2^970 = (2^54 - 1) * 2^970 on
FloatOverflows(total, count) ==
    ShiftRight(ShiftRight(total, 970) + count, 54) >= count

\* lines 233-241: the section, or the OverflowError of the mean (line 237)
ClockStats(errors) ==
    IF errors = <<>> THEN EmptyDict
    ELSE IF FloatOverflows(SumSeq(errors), Len(errors)) THEN Raised("OverflowError")
    ELSE [mean_absolute_error |-> Frac(SumSeq(errors), Len(errors)),
          max_error |-> SeqMax(errors),
          min_error |-> SeqMin(errors),
          matched_with_clock |-> Len(errors)]

compute_clock_accuracy(ms) == ClockStats(ClockErrors(Matched(ms)))

\* lines 254, 269: the indices of two pairings are compared with < and >, which
\* Python defines between two integers and refuses (TypeError) when one is None
Comparable(a, b) == a.t = "int" /\ b.t = "int"

\* line 254: inserting m meets a key it cannot be compared with before it
\* finds its place
RECURSIVE InsertStops(_, _)
InsertStops(m, sorted) ==
    /\ sorted # <<>>
    /\ \/ ~Comparable(m.gt_index, Head(sorted).gt_index)
       \/ /\ m.gt_index.n >= Head(sorted).gt_index.n
          /\ InsertStops(m, Tail(sorted))

\* m goes before the first pairing with a greater key, after its equals
RECURSIVE InsertPlace(_, _)
InsertPlace(m, sorted) ==
    IF sorted = <<>> THEN <<m>>
    ELSE IF m.gt_index.n < Head(sorted).gt_index.n THEN <<m>> \o sorted
    ELSE <<Head(sorted)>> \o InsertPlace(m, Tail(sorted))

\* lines 252-255, one step of the stable sort by gt_index
InsertByGt(m, sorted) ==
    IF InsertStops(m, sorted) THEN Raised("TypeError") ELSE InsertPlace(m, sorted)

\* lines 252-255: sorting two or more pairings compares each key with another,
\* sorting fewer compares nothing
KeysComparable(ms) ==
    Len(ms) < 2 \/ \A i \in 1..Len(ms) : ms[i].gt_index.t = "int"

\* lines 252-255, sorted(matched, key=gt_index): a stable insertion sort, or
\* the TypeError of a key that is None
RECURSIVE SortByGt(_)
SortByGt(ms) ==
    IF ~KeysComparable(ms) THEN Raised("TypeError")
    ELSE IF ms = <<>> THEN <<>>
    ELSE InsertByGt(ms[Len(ms)], SortByGt(SubSeq(ms, 1, Len(ms) - 1)))

\* lines 264-266: the pairs (i, j), i < j, of positions in matched
OrderedPairs(matched) ==
    {p \in (1..Len(matched)) \X (1..Len(matched)) : p[1] < p[2]}

\* a mutant of Inversions: only neighbouring pairings are compared
InversionsAdjacent(matched) ==
    IF \E i \in 1..(Len(matched) - 1) :
           ~Comparable(matched[i].pred_index, matched[i + 1].pred_index)
    THEN Raised("TypeError")
    ELSE PyInt(Cardinality({i \in 1..(Len(matched) - 1) :
             matched[i].pred_index.n > matched[i + 1].pred_index.n}))

\* lines 264-270: every pair is compared, so one pred_index that is None raises
Inversions(matched) ==
    IF \E p \in OrderedPairs(matched) :
           ~Comparable(matched[p[1]].pred_index, matched[p[2]].pred_index)
    THEN Raised("TypeError")
    ELSE PyInt(Cardinality({p \in OrderedPairs(matched) :
             matched[p[1]].pred_index.n > matched[p[2]].pred_index.n}))

\* lines 272-278
SequenceStats(total_pairs, inversions) ==
    [pairs_in_order |-> IF total_pairs > 0
                        THEN Frac(total_pairs - inversions, total_pairs)
                        ELSE FOne,
     total_pairs |-> total_pairs,
     inversions |-> inversions]

\* lines 261-278: the counts once the loops have run, or the TypeError of line 269
SequenceCounted(total_pairs, inversions) ==
    IF IsRaised(inversions) THEN inversions
    ELSE SequenceStats(total_pairs, inversions.n)

\* lines 257-278, over the matched pairings sorted by ground-truth index
SequenceOf(matched) ==
    IF Len(matched) < 2
    THEN [pairs_in_order |-> FOne, total_pairs |-> 0, inversions |-> 0]
    ELSE SequenceCounted(Cardinality(OrderedPairs(matched)), Inversions(matched))

\* lines 244-278
compute_sequence_metrics(ms) ==
    IF ~KeysComparable(Matched(ms)) THEN Raised("TypeError")
    ELSE SequenceOf(SortByGt(Matched(ms)))

----------------------------------------------------------------------------
(* Documents *)

\* a document's analysis fields; a missing key holds Missing, a missing events
\* list has has_events = FALSE
Doc(name_1, name_2, final_score, winner, has_events, events) ==
    [athlete_1_name |-> name_1, athlete_2_name |-> name_2,
     final_score |-> final_score, winner |-> winner,
     has_events |-> has_events, events |-> events]

\* the dict {}
EmptyDoc == Doc(Missing, Missing, Missing, Missing, FALSE, <<>>)

\* a prediction document: the analysis fields under "analysis"
Nested(doc) == [has_analysis |-> TRUE, top |-> EmptyDoc, analysis |-> doc]

\* a prediction document: the analysis fields at the top level, no "analysis" key
Hoisted(doc) == [has_analysis |-> FALSE, top |-> doc, analysis |-> EmptyDoc]

\* doc.get("events", [])
EventsOf(doc) == IF doc.has_events THEN doc.events ELSE <<>>

\* result_data.get("analysis", {}), as evaluate reads it
EvaluateAnalysis(result) == IF result.has_analysis THEN result.analysis ELSE EmptyDoc

\* pred_data.get("analysis", pred_data), as compute_match_level_metrics reads it
MatchLevelAnalysis(result) == IF result.has_analysis THEN result.analysis ELSE result.top

compute_match_level_metrics(gt, result) ==
    LET pred_analysis == MatchLevelAnalysis(result)
        gt_final == GetOr(gt.final_score, EmptyStr)
        pred_final == GetOr(pred_analysis.final_score, EmptyStr)
        gt_winner == GetOr(gt.winner, EmptyStr)
        pred_winner == GetOr(pred_analysis.winner, EmptyStr)
    IN  [final_score_correct |-> gt_final = pred_final,
         gt_final_score |-> gt_final,
         pred_final_score |-> pred_final,
         winner_correct |-> gt_winner = pred_winner,
         gt_winner |-> gt_winner,
         pred_winner |-> pred_winner,
         athlete_1_name_correct |->
             GetOr(gt.athlete_1_name, EmptyStr) = GetOr(pred_analysis.athlete_1_name, EmptyStr),
         athlete_2_name_correct |->
             GetOr(gt.athlete_2_name, EmptyStr) = GetOr(pred_analysis.athlete_2_name, EmptyStr)]

\* a mutant of ReportMatches: an entry is reported as matched when it has a
\* ground-truth event, with or without a prediction
ReportMatchesGtOnly(ms) ==
    [i \in 1..Len(ms) |->
        [gt_index |-> ms[i].gt_index, pred_index |-> ms[i].pred_index,
         gt_event |-> ms[i].gt_event, pred_event |-> ms[i].pred_event,
         matched |-> ms[i].gt_event # PyNone]]

\* the "matches" list of the metrics document
ReportMatches(ms) ==
    [i \in 1..Len(ms) |->
        [gt_index |-> ms[i].gt_index, pred_index |-> ms[i].pred_index,
         gt_event |-> ms[i].gt_event, pred_event |-> ms[i].pred_event,
         matched |-> ms[i].gt_event # PyNone /\ ms[i].pred_event # PyNone]]

----------------------------------------------------------------------------
(* evaluate(), one action per call it makes *)

\* report with section key set to val
Put(dict, key, val) ==
    [k \in DOMAIN dict \cup {key} |-> IF k = key THEN val ELSE dict[k]]

\* lines 316-324, given the two normalised lists
NormalizeWith(gts, preds) ==
    IF NormalizeError(gts) # "none"
    THEN /\ pc' = "raised"
         /\ err' = NormalizeError(gts)
         /\ UNCHANGED <<gt_events, pred_events>>
    ELSE IF NormalizeError(preds) # "none"
    THEN /\ pc' = "raised"
         /\ err' = NormalizeError(preds)
         /\ gt_events' = gts
         /\ UNCHANGED pred_events
    ELSE /\ pc' = "match"
         /\ gt_events' = gts
         /\ pred_events' = preds
         /\ UNCHANGED err

\* lines 317-318: the names of the ground truth, "" when missing
GtName1 == GetOr(gt_data.athlete_1_name, EmptyStr)

GtName2 == GetOr(gt_data.athlete_2_name, EmptyStr)

\* a mutant of NormalizePreds: the prediction events are normalised with the
\* names of the prediction document
NormalizePredsOwnNames(result, athlete_1_name, athlete_2_name) ==
    normalize_events(EventsOf(EvaluateAnalysis(result)),
                     GetOr(EvaluateAnalysis(result).athlete_1_name, EmptyStr),
                     GetOr(EvaluateAnalysis(result).athlete_2_name, EmptyStr))

\* line 324: the prediction events normalised with the names handed in
NormalizePreds(result, athlete_1_name, athlete_2_name) ==
    normalize_events(EventsOf(EvaluateAnalysis(result)), athlete_1_name, athlete_2_name)

\* lines 316-324: both event lists normalised with the names of the ground truth
Normalize ==
    /\ pc = "normalize"
    /\ \E gts \in {normalize_events(EventsOf(gt_data), GtName1, GtName2)} :
       \E preds \in {NormalizePreds(result_data, GtName1, GtName2)} :
           NormalizeWith(gts, preds)
    /\ UNCHANGED <<gt_data, result_data, clock_tolerance, gt_idx, used_pred_indices,
                   matches, report>>

\* lines 72-116, given the pairing of the ground-truth event or the TypeError
\* its scan raised (line 93), which ends match_events and evaluate
MatchGtStep(m) ==
    IF m = Raised("TypeError")
    THEN /\ pc' = "raised"
         /\ err' = "TypeError"
         /\ UNCHANGED <<matches, used_pred_indices, gt_idx>>
    ELSE /\ matches' = Append(matches, m)
         /\ used_pred_indices' = UsedAfter(used_pred_indices, m)
         /\ gt_idx' = gt_idx + 1
         /\ UNCHANGED <<pc, err>>

\* lines 72-116: one iteration of the ground-truth loop of match_events
MatchGt ==
    /\ pc = "match"
    /\ gt_idx < Len(gt_events)
    /\ \E m \in {GtPairing(gt_events, pred_events, used_pred_indices,
                           clock_tolerance, gt_idx)} : MatchGtStep(m)
    /\ UNCHANGED <<gt_data, result_data, clock_tolerance, gt_events, pred_events,
                   report>>

\* lines 118-128: the false positives, and match_events returns
MatchFp ==
    /\ pc = "match"
    /\ gt_idx >= Len(gt_events)
    /\ matches' = matches \o FalsePositives(pred_events, used_pred_indices, 0)
    /\ pc' = "detection"
    /\ UNCHANGED <<gt_data, result_data, clock_tolerance, gt_events, pred_events,
                   gt_idx, used_pred_indices, report, err>>

\* line 337
ComputeDetection ==
    /\ pc = "detection"
    /\ report' = Put(report, "detection", compute_detection_metrics(matches))
    /\ pc' = "field_accuracy"
    /\ UNCHANGED <<gt_data, result_data, clock_tolerance, gt_events, pred_events,
                   gt_idx, used_pred_indices, matches, err>>

\* line 338, given what compute_field_accuracy returned or raised
FieldAccuracyStep(acc) ==
    IF acc = Raised("TypeError")
    THEN /\ pc' = "raised"
         /\ err' = "TypeError"
         /\ UNCHANGED report
    ELSE /\ pc' = "clock_accuracy"
         /\ report' = Put(report, "field_accuracy", acc)
         /\ UNCHANGED err

\* line 338
ComputeFieldAccuracy ==
    /\ pc = "field_accuracy"
    /\ \E acc \in {compute_field_accuracy(matches)} : FieldAccuracyStep(acc)
    /\ UNCHANGED <<gt_data, result_data, clock_tolerance, gt_events, pred_events,
                   gt_idx, used_pred_indices, matches>>

\* line 339: the clock section is stored, or the OverflowError of
\* compute_clock_accuracy leaves evaluate
ClockAccuracyStep(acc) ==
    IF acc = Raised("OverflowError")
    THEN /\ pc' = "raised"
         /\ err' = "OverflowError"
         /\ UNCHANGED report
    ELSE /\ pc' = "sequence"
         /\ report' = Put(report, "clock_accuracy", acc)
         /\ UNCHANGED err

\* line 339
ComputeClockAccuracy ==
    /\ pc = "clock_accuracy"
    /\ \E acc \in {compute_clock_accuracy(matches)} : ClockAccuracyStep(acc)
    /\ UNCHANGED <<gt_data, result_data, clock_tolerance, gt_events, pred_events,
                   gt_idx, used_pred_indices, matches>>

\* line 340: the sequence section is stored, or the TypeError of
\* compute_sequence_metrics leaves evaluate
SequenceStep(seq) ==
    IF seq = Raised("TypeError")
    THEN /\ pc' = "raised"
         /\ err' = "TypeError"
         /\ UNCHANGED report
    ELSE /\ pc' = "match_level"
         /\ report' = Put(report, "sequence", seq)
         /\ UNCHANGED err

\* line 340
ComputeSequence ==
    /\ pc = "sequence"
    /\ \E seq \in {compute_sequence_metrics(matches)} : SequenceStep(seq)
    /\ UNCHANGED <<gt_data, result_data, clock_tolerance, gt_events, pred_events,
                   gt_idx, used_pred_indices, matches>>

\* lines 341-352: the match-level section, the alignment listing, and evaluate returns
ComputeMatchLevel ==
    /\ pc = "match_level"
    /\ report' = Put(Put(Put(Put(report,
                     "match_level", compute_match_level_metrics(gt_data, result_data)),
                     "matches", ReportMatches(matches)),
                     "gt_event_count", Len(gt_events)),
                     "pred_event_count", Len(pred_events))
    /\ pc' = "done"
    /\ UNCHANGED <<gt_data, result_data, clock_tolerance, gt_events, pred_events,
                   gt_idx, used_pred_indices, matches, err>>

Next ==
    \/ Normalize
    \/ MatchGt
    \/ MatchFp
    \/ ComputeDetection
    \/ ComputeFieldAccuracy
    \/ ComputeClockAccuracy
    \/ ComputeSequence
    \/ ComputeMatchLevel

\* evaluate() entered with the two documents loaded
InitWith(gts, results, tolerances) ==
    /\ pc = "normalize"
    /\ gt_data \in gts
    /\ result_data \in results
    /\ clock_tolerance \in tolerances
    /\ gt_events = <<>>
    /\ pred_events = <<>>
    /\ gt_idx = 0
    /\ used_pred_indices = {}
    /\ matches = <<>>
    /\ report = EmptyDict
    /\ err = "none"

----------------------------------------------------------------------------
(* Inputs *)

MaxGt == 2

MaxPred == 2

SeqsUpTo(S, n) == UNION {[1..k -> S] : k \in 0..n}

\* an event dict with the keys the evaluation reads
Event(athlete, match_clock, timestamp_seconds, points_change, action) ==
    [athlete |-> athlete, match_clock |-> match_clock,
     timestamp_seconds |-> timestamp_seconds,
     points_change |-> points_change, advantages_change |-> Missing,
     penalties_change |-> Missing, action |-> action,
     running_score |-> Missing, running_advantages |-> Missing,
     running_penalties |-> Missing]

NameAl == PyStr(<<"A", "l">>)

NameBo == PyStr(<<"B", "o">>)

Clock005 == PyStr(<<"0", ":", "0", "5">>)

Clock015 == PyStr(<<"0", ":", "1", "5">>)

ClockX == PyStr(<<"x">>)

\* [match_clock, timestamp_seconds] of the events: clock "0:05" without a
\* timestamp, clock "0:15" at second 10, the unparsable clock "x" at second 10
MatchTimes ==
    {<<Clock005, Missing>>, <<Clock015, PyInt(10)>>, <<ClockX, PyInt(10)>>}

MatchTolerances == {1, 10}

MatchEventSet ==
    {Event(a, ct[1], ct[2], Missing, Missing) : a \in {One, Two}, ct \in MatchTimes}

MatchGtDocs ==
    {Doc(NameAl, NameBo, Missing, Missing, TRUE, es) : es \in SeqsUpTo(MatchEventSet, MaxGt)}

MatchResultDocs ==
    {Nested(Doc(NameAl, NameBo, Missing, Missing, TRUE, es)) :
        es \in SeqsUpTo(MatchEventSet, MaxPred)}

Init == InitWith(MatchGtDocs, MatchResultDocs, MatchTolerances)

Spec == Init /\ [][Next]_vars

----------------------------------------------------------------------------
(* Inputs of the normalisation: names and raw athlete values *)

MaxNameLen == 2

NameAlphabet == {"a", " ", "2"}

\* every string over the alphabet of at most MaxNameLen characters, among them
\* the empty name and the names of whitespace only
NameStrings == {PyStr(chars) : chars \in SeqsUpTo(NameAlphabet, MaxNameLen)}

\* raw athlete values: a string, the numeral string "1", an integer, None, or
\* no athlete key
RawAthletes == NameStrings \cup {One, PyInt(1), PyInt(2), PyInt(3), PyNone, Missing}

\* one ground-truth event and the same event predicted; the prediction document
\* carries the two names the other way round
InitNorm ==
    \E name_1 \in NameStrings, name_2 \in NameStrings, athlete \in RawAthletes :
        InitWith({Doc(name_1, name_2, Missing, Missing, TRUE,
                      <<Event(athlete, Clock005, Missing, Missing, Missing)>>)},
                 {Nested(Doc(name_2, name_1, Missing, Missing, TRUE,
                             <<Event(athlete, Clock005, Missing, Missing, Missing)>>))},
                 {10})

SpecNorm == InitNorm /\ [][Next]_vars

----------------------------------------------------------------------------
(* Inputs of the timestamp fallback: clocks that do not parse *)

\* [match_clock, timestamp_seconds] of the events: the unparsable clock "x" at
\* second 10, the empty clock without a timestamp, no clock at second 9, the
\* clock "0:05" at second 20, and the clock None with the timestamp None
FallbackTimes ==
    {<<ClockX, PyInt(10)>>, <<EmptyStr, Missing>>, <<Missing, PyInt(9)>>,
     <<Clock005, PyInt(20)>>, <<PyNone, PyNone>>}

\* events of one athlete, so that the times alone decide
FallbackEventSet == {Event(One, ct[1], ct[2], Missing, Missing) : ct \in FallbackTimes}

InitFallback ==
    InitWith({Doc(NameAl, NameBo, Missing, Missing, TRUE, es) :
                 es \in SeqsUpTo(FallbackEventSet, MaxGt)},
             {Nested(Doc(NameAl, NameBo, Missing, Missing, TRUE, es)) :
                 es \in SeqsUpTo(FallbackEventSet, MaxPred)},
             MatchTolerances)

SpecFallback == InitFallback /\ [][Next]_vars

----------------------------------------------------------------------------
(* Inputs of the document shapes: analysis fields nested or hoisted *)

Score20 == PyStr(<<"2", "-", "0">>)

\* the event lists of a document: none, one event of athlete "1", one event
\* whose athlete is given by the second name
DocEventLists ==
    {<<>>, <<Event(One, Clock005, Missing, Missing, Missing)>>,
     <<Event(NameBo, Clock005, Missing, Missing, Missing)>>}

DocGts ==
    {Doc(NameAl, NameBo, fs, NameAl, TRUE, es) :
        fs \in {Missing, Score20}, es \in DocEventLists}

\* the analysis fields of a prediction, with or without an events list
DocAnalyses ==
    {Doc(n1, NameBo, fs, NameAl, TRUE, es) :
        n1 \in {NameAl, Missing}, fs \in {Missing, Score20}, es \in DocEventLists}
    \cup {Doc(n1, NameBo, fs, NameAl, FALSE, <<>>) :
        n1 \in {NameAl, Missing}, fs \in {Missing, Score20}}

InitDoc ==
    InitWith(DocGts,
             {Nested(doc) : doc \in DocAnalyses} \cup {Hoisted(doc) : doc \in DocAnalyses},
             {10})

SpecDoc == InitDoc /\ [][Next]_vars

----------------------------------------------------------------------------
(* Inputs of the ordering: up to three events of one athlete, 10 seconds apart *)

MaxSeqLen == 3

Clock025 == PyStr(<<"0", ":", "2", "5">>)

SeqEventSet ==
    {Event(One, c, Missing, Missing, Missing) : c \in {Clock005, Clock015, Clock025}}

InitSeq ==
    InitWith({Doc(NameAl, NameBo, Missing, Missing, TRUE, es) :
                 es \in SeqsUpTo(SeqEventSet, MaxSeqLen)},
             {Nested(Doc(NameAl, NameBo, Missing, Missing, TRUE, es)) :
                 es \in SeqsUpTo(SeqEventSet, MaxSeqLen)},
             MatchTolerances)

SpecSeq == InitSeq /\ [][Next]_vars

----------------------------------------------------------------------------
(* Inputs of the field comparison: events of one athlete with field values *)

Clock010 == PyStr(<<"0", ":", "1", "0">>)

ActionA == PyStr(<<"a">>)

ActionB == PyStr(<<"b">>)

\* [match_clock, points_change, action] of the events; none has a timestamp,
\* so a pair with a clock that does not parse is 0 seconds apart
FieldProfiles ==
    {<<Clock005, PyInt(2), ActionA>>,
     <<Clock010, PyInt(0), EmptyStr>>,
     <<Clock015, Missing, ActionA>>,
     <<ClockX, PyInt(2), PyNone>>,
     <<EmptyStr, PyInt(0), ActionB>>,
     <<Missing, Missing, Missing>>}

FieldEventSet == {Event(One, f[1], Missing, f[2], f[3]) : f \in FieldProfiles}

InitField ==
    InitWith({Doc(NameAl, NameBo, Missing, Missing, TRUE, es) :
                 es \in SeqsUpTo(FieldEventSet, MaxGt)},
             {Nested(Doc(NameAl, NameBo, Missing, Missing, TRUE, es)) :
                 es \in SeqsUpTo(FieldEventSet, MaxPred)},
             {10})

SpecField == InitField /\ [][Next]_vars

----------------------------------------------------------------------------
(* Inputs of the clock parsing: one event with an arbitrary clock *)

MaxClockLen == 4

\* a tolerance wide enough for the clocks of at most 10 minutes
WideTolerance == 600

ClockAlphabet == {"4", "5", "8", ":", "x", " "}

Clock000 == PyStr(<<"0", ":", "0", "0">>)

\* n zeros
Zeros(n) == [i \in 1..n |-> "0"]

\* bare integers and M:SS clocks of as many digits as int() converts, and of
\* one digit more
LongClocks ==
    {PyStr(Zeros(MaxStrDigits)),
     PyStr(Zeros(MaxStrDigits - 1) \o <<"5">>),
     PyStr(Zeros(MaxStrDigits) \o <<":", "4", "5">>),
     PyStr(Zeros(MaxStrDigits + 1)),
     PyStr(Zeros(MaxStrDigits) \o <<"5">>),
     PyStr(Zeros(MaxStrDigits + 1) \o <<":", "4", "5">>),
     PyStr(<<"8", ":">> \o Zeros(MaxStrDigits + 1))}

\* every string over the alphabet of at most MaxClockLen characters, the long
\* clocks, the integer 45, the clock None, and no clock key
RawClocks ==
    {PyStr(chars) : chars \in SeqsUpTo(ClockAlphabet, MaxClockLen)}
        \cup LongClocks \cup {PyInt(45), PyNone, Missing}

\* one ground-truth event with the clock and the prediction of it at "0:00"
InitClock ==
    InitWith({Doc(NameAl, NameBo, Missing, Missing, TRUE,
                  <<Event(One, c, Missing, Missing, Missing)>>) : c \in RawClocks},
             {Nested(Doc(NameAl, NameBo, Missing, Missing, TRUE,
                         <<Event(One, Clock000, Missing, Missing, Missing)>>))},
             {WideTolerance})

SpecClock == InitClock /\ [][Next]_vars

----------------------------------------------------------------------------
(* Inputs of the permissive defaults: documents without events, without names *)

\* events of athlete "1" and of the athlete named "Bo"
DefaultsEventSet ==
    {Event(a, Clock005, Missing, Missing, Missing) : a \in {One, NameBo}}

\* ground-truth documents: each name present or missing, the events list
\* missing or of at most MaxGt events
DefaultsGts ==
    {Doc(n1, n2, Missing, Missing, TRUE, es) :
        n1 \in {NameAl, Missing}, n2 \in {NameBo, Missing},
        es \in SeqsUpTo(DefaultsEventSet, MaxGt)}
    \cup {Doc(n1, n2, Missing, Missing, FALSE, <<>>) :
        n1 \in {NameAl, Missing}, n2 \in {NameBo, Missing}}

\* prediction documents: the events list missing or of at most MaxPred events,
\* and the document {}
DefaultsResults ==
    {Nested(Doc(NameAl, NameBo, Missing, Missing, TRUE, es)) :
        es \in SeqsUpTo(DefaultsEventSet, MaxPred)}
    \cup {Nested(Doc(NameAl, NameBo, Missing, Missing, FALSE, <<>>)), Hoisted(EmptyDoc)}

InitDefaults == InitWith(DefaultsGts, DefaultsResults, {10})

SpecDefaults == InitDefaults /\ [][Next]_vars

----------------------------------------------------------------------------
(* Inputs of the missing timestamps: events without timestamp_seconds *)

\* [match_clock, timestamp_seconds] of the events: an empty clock, the clock "x"
\* and the clock "0:05" without a timestamp, the clock "x" at second 1, and no
\* clock at second 10
StampTimes ==
    {<<EmptyStr, Missing>>, <<ClockX, Missing>>, <<Clock005, Missing>>,
     <<ClockX, PyInt(1)>>, <<Missing, PyInt(10)>>}

StampEventSet == {Event(One, ct[1], ct[2], Missing, Missing) : ct \in StampTimes}

StampTolerances == {0, 1, 10}

InitStamp ==
    InitWith({Doc(NameAl, NameBo, Missing, Missing, TRUE, es) :
                 es \in SeqsUpTo(StampEventSet, MaxGt)},
             {Nested(Doc(NameAl, NameBo, Missing, Missing, TRUE, es)) :
                 es \in SeqsUpTo(StampEventSet, MaxPred)},
             StampTolerances)

SpecStamp == InitStamp /\ [][Next]_vars

----------------------------------------------------------------------------
(* Properties of the alignment *)

\* match_events has returned: evaluate is past it, or raised after the
\* detection section was computed from the alignment
AlignmentBuilt ==
    \/ pc \in {"detection", "field_accuracy", "clock_accuracy", "sequence",
               "match_level", "done"}
    \/ (pc = "raised" /\ "detection" \in DOMAIN report)

GtIndices == 0..(Len(gt_events) - 1)

PredIndices == 0..(Len(pred_events) - 1)

PairingsOfGt(g) == {i \in 1..Len(matches) : matches[i].gt_index = PyInt(g)}

PairingsOfPred(p) == {i \in 1..Len(matches) : matches[i].pred_index = PyInt(p)}

IsMatchedPairing(m) == m.gt_index # PyNone /\ m.pred_index # PyNone

IsFalseNegative(m) == m.gt_index # PyNone /\ m.pred_index = PyNone

IsFalsePositive(m) == m.gt_index = PyNone /\ m.pred_index # PyNone

\* C1: in the alignment match_events returns, every ground-truth index 0..|G|-1
\* is in exactly one pairing, every prediction index 0..|P|-1 is in exactly one
\* pairing, and at no time is a prediction index paired with two ground-truth
\* indices.
C1_EachIndexInOnePairing ==
    /\ AlignmentBuilt =>
          /\ \A g \in GtIndices : Cardinality(PairingsOfGt(g)) = 1
          /\ \A p \in PredIndices : Cardinality(PairingsOfPred(p)) = 1
          /\ \A i \in 1..Len(matches) :
                /\ matches[i].gt_index = PyNone \/ matches[i].gt_index.n \in GtIndices
                /\ matches[i].pred_index = PyNone \/ matches[i].pred_index.n \in PredIndices
                /\ matches[i].gt_index # PyNone \/ matches[i].pred_index # PyNone
    /\ \A i, j \in 1..Len(matches) :
          (IsMatchedPairing(matches[i]) /\ IsMatchedPairing(matches[j])
             /\ matches[i].pred_index = matches[j].pred_index) => i = j

\* C1 witness: a prediction matched to the first ground-truth event, a second
\* ground-truth event of the same athlete within tolerance of that prediction left
\* unmatched, and another prediction left over.
C1_Witness ==
    /\ AlignmentBuilt
    /\ Len(gt_events) = 2 /\ Len(pred_events) = 2
    /\ IsMatchedPairing(matches[1])
    /\ IsFalseNegative(matches[2])
    /\ gt_events[2].athlete = matches[1].pred_event.athlete
    /\ TimeDiff(gt_events[2], matches[1].pred_event).n <= clock_tolerance
    /\ \E i \in 1..Len(matches) : IsFalsePositive(matches[i])

\* the prediction indices consumed before ground-truth pairing k was decided
UsedBefore(k) ==
    {matches[j].pred_index.n : j \in {i \in 1..(k - 1) : matches[i].pred_index # PyNone}}

\* the predictions that qualify for ground-truth pairing k: unconsumed, same
\* athlete, time difference within the tolerance
Eligible(k) ==
    {q \in PredIndices :
        /\ q \notin UsedBefore(k)
        /\ pred_events[q + 1].athlete = gt_events[k].athlete
        /\ TimeDiff(gt_events[k], pred_events[q + 1]).n <= clock_tolerance}

\* C2: the ground-truth events are processed in index order, and each is paired
\* with an unconsumed prediction of the identical athlete whose time difference is
\* within clock_tolerance (inclusive) and smallest among such predictions; it is
\* left unmatched only when no such prediction exists.
C2_ClosestSameAthleteWithinTolerance ==
    \A k \in 1..gt_idx :
        /\ matches[k].gt_index = PyInt(k - 1)
        /\ matches[k].gt_event = gt_events[k]
        /\ IF Eligible(k) = {}
           THEN matches[k].pred_index = PyNone
           ELSE /\ matches[k].pred_index # PyNone
                /\ matches[k].pred_index.n \in Eligible(k)
                /\ matches[k].pred_event = pred_events[matches[k].pred_index.n + 1]
                /\ matches[k].gt_event.athlete = matches[k].pred_event.athlete
                /\ \A q \in Eligible(k) :
                      TimeDiff(gt_events[k], matches[k].pred_event).n
                         <= TimeDiff(gt_events[k], pred_events[q + 1]).n

\* C2 witness: a ground-truth event paired with the second prediction, 0 seconds
\* away, although the first prediction, 10 seconds away (the tolerance exactly),
\* qualified too.
C2_Witness ==
    /\ gt_idx >= 1
    /\ clock_tolerance = 10
    /\ matches[1].pred_index = PyInt(1)
    /\ TimeDiff(gt_events[1], pred_events[2]).n = 0
    /\ 0 \in Eligible(1)
    /\ TimeDiff(gt_events[1], pred_events[1]).n = 10

\* the prediction document lists the very events of the ground truth
IdenticalInputs ==
    /\ result_data.has_analysis
    /\ EventsOf(result_data.analysis) = EventsOf(gt_data)

\* what C3 promises of an evaluation: nothing raises, every pairing is matched,
\* all three rates are 1, no pair of matched pairings is inverted
AllMatchedInOrder ==
    /\ pc # "raised"
    /\ AlignmentBuilt =>
          /\ Len(matches) = Len(gt_events)
          /\ \A i \in 1..Len(matches) : IsMatchedPairing(matches[i])
    /\ "detection" \in DOMAIN report =>
          /\ report.detection.false_negatives = 0
          /\ report.detection.false_positives = 0
          /\ report.detection.precision = FOne
          /\ report.detection.recall = FOne
          /\ report.detection.f1 = FOne
    /\ "sequence" \in DOMAIN report =>
          /\ report.sequence.pairs_in_order = FOne
          /\ report.sequence.inversions = 0

\* C3 as claimed: for every ground-truth sequence G and a prediction sequence
\* identical to it, every event is matched, precision = recall = f1 = 1,
\* pairs_in_order = 1 and inversions = 0.
C3_IdenticalAllMatched_Original == IdenticalInputs => AllMatchedInOrder

\* C3 amended: for every non-empty ground-truth sequence G, a prediction sequence
\* identical to it and a tolerance >= 0, every event is matched, precision =
\* recall = f1 = 1, pairs_in_order = 1 and inversions = 0.
C3_IdenticalNonEmptyAllMatched ==
    (IdenticalInputs /\ Len(EventsOf(gt_data)) > 0 /\ clock_tolerance >= 0)
        => AllMatchedInOrder

\* C3 witness: an evaluation finished on two equal events listed identically on
\* both sides, where each prediction is as close to either ground-truth event.
C3_Witness ==
    /\ pc = "done"
    /\ IdenticalInputs
    /\ Len(gt_events) = 2
    /\ gt_events[1] = gt_events[2]
    /\ report.detection.true_positives = 2

\* no prediction has the athlete of any ground-truth event
DisjointAthletes ==
    \A g \in GtIndices, p \in PredIndices :
        gt_events[g + 1].athlete # pred_events[p + 1].athlete

\* C4: when no prediction shares an athlete identity with a ground-truth event,
\* every ground-truth event is a false negative and every prediction a false
\* positive, whatever the tolerance, the clocks and the timestamps.
C4_DisjointAthletesNothingMatched ==
    DisjointAthletes =>
        /\ used_pred_indices = {}
        /\ AlignmentBuilt =>
              /\ Len(matches) = Len(gt_events) + Len(pred_events)
              /\ \A g \in GtIndices :
                    matches[g + 1] = MatchResult(PyInt(g), PyNone, gt_events[g + 1], PyNone)
              /\ \A p \in PredIndices :
                    matches[Len(gt_events) + p + 1]
                       = MatchResult(PyNone, PyInt(p), PyNone, pred_events[p + 1])
        /\ "detection" \in DOMAIN report =>
              /\ report.detection.true_positives = 0
              /\ report.detection.false_negatives = Len(gt_events)
              /\ report.detection.false_positives = Len(pred_events)

\* C4 witness: two ground-truth events of one athlete and two predictions of the
\* other, the first of each with no time difference at all.
C4_Witness ==
    /\ AlignmentBuilt
    /\ DisjointAthletes
    /\ Len(gt_events) = 2 /\ Len(pred_events) = 2
    /\ TimeDiff(gt_events[1], pred_events[1]).n = 0
    /\ clock_tolerance = 10

CountPairings(P(_)) == Cardinality({i \in 1..Len(matches) : P(matches[i])})

\* C10: TP, FN and FP count the matched, ground-truth-only and prediction-only
\* pairings; precision = TP/(TP+FP), recall = TP/(TP+FN), f1 = 2PR/(P+R); a rate
\* whose denominator is 0 is 0.
C10_DetectionCountsAndRates ==
    "detection" \in DOMAIN report =>
        LET d == report.detection
            tp == CountPairings(IsMatchedPairing)
            fn == CountPairings(IsFalseNegative)
            fp == CountPairings(IsFalsePositive)
            pr == d.precision
            rc == d.recall
        IN  /\ d.true_positives = tp
            /\ d.false_negatives = fn
            /\ d.false_positives = fp
            /\ pr.den > 0 /\ rc.den > 0 /\ d.f1.den > 0
            /\ IF tp + fp = 0 THEN pr.num = 0 ELSE pr.num * (tp + fp) = tp * pr.den
            /\ IF tp + fn = 0 THEN rc.num = 0 ELSE rc.num * (tp + fn) = tp * rc.den
            /\ IF pr.num = 0 /\ rc.num = 0 THEN d.f1.num = 0
               ELSE d.f1.num * (pr.num * rc.den + rc.num * pr.den)
                       = 2 * pr.num * rc.num * d.f1.den

\* C10 witness: one ground-truth event never matched and one unrelated
\* prediction: TP = 0, FN = 1, FP = 1 and the three rates are 0.
C10_Witness ==
    /\ "detection" \in DOMAIN report
    /\ report.detection.true_positives = 0
    /\ report.detection.false_negatives = 1
    /\ report.detection.false_positives = 1
    /\ report.detection.precision = FZero
    /\ report.detection.recall = FZero
    /\ report.detection.f1 = FZero

----------------------------------------------------------------------------
(* Properties of the normalisation *)

Identities == {One, Two}

\* C5 as claimed: normalize_athlete returns "1" or "2" for every raw athlete value
\* and every pair of names, empty and whitespace-only names included, and never
\* raises.
C5_NormalizeAlwaysReturnsIdentity ==
    /\ err # "IndexError"
    /\ pc \notin {"normalize", "raised"} =>
          /\ Len(gt_events) = Len(EventsOf(gt_data))
          /\ \A i \in 1..Len(gt_events) : gt_events[i].athlete \in Identities
          /\ \A i \in 1..Len(pred_events) : pred_events[i].athlete \in Identities

\* C6: normalize_events applied to a sequence normalize_events returned, with the
\* same names, returns that sequence.
C6_NormalizeIdempotent ==
    (pc # "normalize" /\ err # "IndexError") =>
        /\ normalize_events(gt_events, GtName1, GtName2) = gt_events
        /\ normalize_events(pred_events, GtName1, GtName2) = pred_events

\* C6 witness: an athlete given by a name, not by a numeral, was resolved to "2"
\* through the substring rule, under names that also contain the character "2".
C6_Witness ==
    /\ pc = "match"
    /\ Len(gt_events) = 1
    /\ gt_data.events[1].athlete.t = "str"
    /\ gt_data.events[1].athlete \notin {One, Two, GtName1, GtName2}
    /\ gt_events[1].athlete = Two
    /\ Contains(GtName1.s, <<"2">>)

----------------------------------------------------------------------------
(* Properties of the clocks that do not parse *)

\* C7 as claimed: an unparsable or empty match_clock on either side is never an
\* error: match_events, compute_field_accuracy and compute_clock_accuracy
\* complete without raising.
C7_UnparsableClockNeverRaises == pc # "raised" /\ err = "none"

\* the clock of the event does not parse (unparsable, empty or missing)
ClockFails(event) == ClockOf(event) = PyNone

\* |timestamp_seconds - timestamp_seconds| of a ground-truth event and a prediction
StampDiff(gt_event, pred_event) == AbsDiff(StampOf(gt_event), StampOf(pred_event)).n

\* the unconsumed predictions of the athlete of ground-truth pairing k that are
\* compared with it by timestamps, a clock of the pair failing to parse
FallbackCandidates(k) ==
    {q \in PredIndices :
        /\ q \notin UsedBefore(k)
        /\ pred_events[q + 1].athlete = gt_events[k].athlete
        /\ (ClockFails(gt_events[k]) \/ ClockFails(pred_events[q + 1]))}

\* C8: when the clock of the ground-truth event or of the candidate prediction
\* fails to parse, the pair is compared by |timestamp_seconds difference|: the
\* candidate is chosen only if that difference is <= clock_tolerance, a
\* candidate within the tolerance leaves the event matched, and of two such
\* candidates the one chosen is no farther than the other.
C8_FallbackToTimestampsWithinTolerance ==
    \A k \in 1..gt_idx : \A q \in FallbackCandidates(k) :
        /\ matches[k].pred_index = PyInt(q) =>
              /\ StampDiff(gt_events[k], pred_events[q + 1]) <= clock_tolerance
              /\ \A r \in FallbackCandidates(k) :
                    StampDiff(gt_events[k], pred_events[q + 1])
                       <= StampDiff(gt_events[k], pred_events[r + 1])
        /\ StampDiff(gt_events[k], pred_events[q + 1]) <= clock_tolerance =>
              matches[k].pred_index # PyNone

\* C8 witness: at tolerance 1 a ground-truth event with the unparsable clock "x"
\* at second 10 passed over a clockless prediction 10 seconds away and was paired
\* with the prediction without a clock 1 second away.
C8_Witness ==
    /\ gt_idx >= 1
    /\ clock_tolerance = 1
    /\ gt_events[1].match_clock = ClockX
    /\ Len(pred_events) = 2
    /\ FallbackCandidates(1) = {0, 1}
    /\ StampDiff(gt_events[1], pred_events[1]) = 10
    /\ StampDiff(gt_events[1], pred_events[2]) = 1
    /\ matches[1].pred_index = PyInt(1)

----------------------------------------------------------------------------
(* Properties of the document shapes *)

\* C9 as claimed: a prediction document with its analysis fields at the top
\* level, without an "analysis" key, is evaluated as the same document with the
\* fields under "analysis": the same prediction events, alignment and metrics.
C9_HoistedEvaluatedAsNested ==
    ~result_data.has_analysis =>
        /\ pc \notin {"normalize", "raised"} =>
              pred_events = normalize_events(EventsOf(result_data.top), GtName1, GtName2)
        /\ AlignmentBuilt =>
              matches = match_events(gt_events,
                           normalize_events(EventsOf(result_data.top), GtName1, GtName2),
                           clock_tolerance)
        /\ "detection" \in DOMAIN report =>
              report.detection = compute_detection_metrics(
                  match_events(gt_events,
                      normalize_events(EventsOf(result_data.top), GtName1, GtName2),
                      clock_tolerance))
        /\ pc = "done" =>
              report.match_level = compute_match_level_metrics(gt_data, Nested(result_data.top))

----------------------------------------------------------------------------
(* Properties of the metrics *)

\* the positions in the alignment of the matched pairings
MatchedPositions == {i \in 1..Len(matches) : IsMatchedPairing(matches[i])}

\* the pairs of matched pairings, the earlier by ground-truth index first,
\* whose prediction indices are the other way round
InvertedPairs ==
    {p \in MatchedPositions \X MatchedPositions :
        /\ matches[p[1]].gt_index.n < matches[p[2]].gt_index.n
        /\ matches[p[1]].pred_index.n > matches[p[2]].pred_index.n}

\* two ground-truth events of one athlete and two predictions of that athlete
\* listed the other way round: the second prediction is within the tolerance of
\* the first event and strictly closer to it than the first prediction, which
\* is within the tolerance of the second event
ReversedPair ==
    /\ Len(gt_events) = 2 /\ Len(pred_events) = 2
    /\ \A i \in 1..2 : pred_events[i].athlete = gt_events[1].athlete
    /\ gt_events[2].athlete = gt_events[1].athlete
    /\ TimeDiff(gt_events[1], pred_events[2]).n <= clock_tolerance
    /\ TimeDiff(gt_events[1], pred_events[2]).n < TimeDiff(gt_events[1], pred_events[1]).n
    /\ TimeDiff(gt_events[2], pred_events[1]).n <= clock_tolerance

\* C11: over the M matched pairings the sequence section counts one inversion
\* per pair (i<j by ground-truth index) whose prediction indices are the other
\* way round, total_pairs = M*(M-1)/2 and pairs_in_order = 1 - inversions /
\* total_pairs; with M < 2 it is 1.0, 0, 0; for two events whose predictions
\* are listed in reverse it is inversions = 1, total_pairs = 1, pairs_in_order = 0.
C11_SequenceCountsInversions ==
    "sequence" \in DOMAIN report =>
        /\ report.sequence.inversions = Cardinality(InvertedPairs)
        /\ report.sequence.total_pairs * 2
              = Cardinality(MatchedPositions) * (Cardinality(MatchedPositions) - 1)
        /\ report.sequence.pairs_in_order.den > 0
        /\ IF Cardinality(MatchedPositions) < 2
           THEN /\ report.sequence.pairs_in_order = FOne
                /\ report.sequence.total_pairs = 0
                /\ report.sequence.inversions = 0
           ELSE report.sequence.pairs_in_order.num * report.sequence.total_pairs
                   = (report.sequence.total_pairs - report.sequence.inversions)
                        * report.sequence.pairs_in_order.den
        /\ ReversedPair =>
              /\ Cardinality(MatchedPositions) = 2
              /\ report.sequence.inversions = 1
              /\ report.sequence.total_pairs = 1
              /\ report.sequence.pairs_in_order = FZero

\* C11 witness: three matched pairings of which the first and the third, and
\* the second and the third, are inverted, but not the first and the second:
\* 2 inversions among 3 pairs, pairs_in_order = 1/3.
C11_Witness ==
    /\ "sequence" \in DOMAIN report
    /\ Cardinality(MatchedPositions) = 3
    /\ matches[1].pred_index = PyInt(1)
    /\ matches[2].pred_index = PyInt(2)
    /\ matches[3].pred_index = PyInt(0)
    /\ report.sequence.inversions = 2
    /\ report.sequence.total_pairs = 3
    /\ report.sequence.pairs_in_order = Frac(1, 3)

\* the fixed fields of the field accuracy
FixedFields ==
    {"points_change", "advantages_change", "penalties_change", "action",
     "running_score", "running_advantages", "running_penalties", "match_clock"}

\* the matched pairings whose ground-truth value of the field is present and
\* non-empty
EligibleFor(field) ==
    {i \in MatchedPositions :
        matches[i].gt_event[field] \notin {Missing, PyNone, EmptyStr}}

\* the two clocks parse and their seconds differ by at most 5
ClocksAgree(m) ==
    /\ parse_clock(m.gt_event.match_clock) # PyNone
    /\ parse_clock(m.pred_event.match_clock) # PyNone
    /\ Abs(parse_clock(m.gt_event.match_clock).n
              - parse_clock(m.pred_event.match_clock).n) <= 5

\* the eligible pairings that are correct on the field
CorrectFor(field) ==
    {i \in EligibleFor(field) :
        IF field = "match_clock" THEN ClocksAgree(matches[i])
        ELSE matches[i].gt_event[field] = matches[i].pred_event[field]}

\* C12: the field accuracy has an entry for exactly the fixed fields with an
\* eligible pairing (a matched pairing whose ground-truth value is present and
\* non-empty); total counts the eligible pairings and correct those with equal
\* values, or for match_clock with two parsed clocks at most 5 seconds apart;
\* accuracy = correct / total; without a matched pairing the result is empty.
C12_FieldAccuracyOverEligiblePairings ==
    "field_accuracy" \in DOMAIN report =>
        /\ DOMAIN report.field_accuracy = {f \in FixedFields : EligibleFor(f) # {}}
        /\ \A f \in DOMAIN report.field_accuracy :
              /\ report.field_accuracy[f].total = Cardinality(EligibleFor(f))
              /\ report.field_accuracy[f].correct = Cardinality(CorrectFor(f))
              /\ report.field_accuracy[f].accuracy.den > 0
              /\ report.field_accuracy[f].accuracy.num * Cardinality(EligibleFor(f))
                    = Cardinality(CorrectFor(f)) * report.field_accuracy[f].accuracy.den
        /\ MatchedPositions = {} => report.field_accuracy = EmptyDict

\* C12 witness: two matched pairings; points_change is 0 on both sides of one
\* (eligible and correct) and missing in the ground truth of the other
\* (skipped); the clocks of one pairing are 5 seconds apart (correct), the
\* ground-truth clock of the other is empty (skipped); the fields that no
\* ground-truth event carries have no entry.
C12_Witness ==
    /\ "field_accuracy" \in DOMAIN report
    /\ Cardinality(MatchedPositions) = 2
    /\ \E i \in MatchedPositions :
          /\ matches[i].gt_event.points_change = PyInt(0)
          /\ matches[i].pred_event.points_change = PyInt(0)
          /\ matches[i].gt_event.match_clock = EmptyStr
    /\ \E i \in MatchedPositions :
          /\ matches[i].gt_event.points_change = Missing
          /\ matches[i].gt_event.match_clock = Clock015
          /\ matches[i].pred_event.match_clock = Clock010
    /\ DOMAIN report.field_accuracy = {"points_change", "match_clock", "action"}
    /\ report.field_accuracy.points_change.total = 1
    /\ report.field_accuracy.match_clock.correct = 1

\* the matched pairings whose two clocks parse
ClockedPositions ==
    {i \in MatchedPositions :
        /\ parse_clock(GetOr(matches[i].gt_event.match_clock, EmptyStr)) # PyNone
        /\ parse_clock(GetOr(matches[i].pred_event.match_clock, EmptyStr)) # PyNone}

\* the absolute clock error of a pairing whose two clocks parse
ClockErrorAt(i) ==
    Abs(parse_clock(matches[i].gt_event.match_clock).n
           - parse_clock(matches[i].pred_event.match_clock).n)

RECURSIVE SumOfClockErrors(_)
SumOfClockErrors(positions) ==
    IF positions = {} THEN 0
    ELSE ClockErrorAt(CHOOSE i \in positions : TRUE)
            + SumOfClockErrors(positions \ {CHOOSE i \in positions : TRUE})

\* one ground-truth event and one prediction of its athlete whose clocks parse
\* and differ by at most the tolerance
SinglePairWithinTolerance ==
    /\ Len(gt_events) = 1 /\ Len(pred_events) = 1
    /\ gt_events[1].athlete = pred_events[1].athlete
    /\ parse_clock(GetOr(gt_events[1].match_clock, EmptyStr)) # PyNone
    /\ parse_clock(GetOr(pred_events[1].match_clock, EmptyStr)) # PyNone
    /\ Abs(parse_clock(gt_events[1].match_clock).n
              - parse_clock(pred_events[1].match_clock).n) <= clock_tolerance

----------------------------------------------------------------------------
(* Properties of the clock parsing *)

DecimalDigits == <<"0", "1", "2", "3", "4", "5", "6", "7", "8", "9">>

\* a non-empty string of decimal digits
AllDigits(chars) ==
    /\ chars # <<>>
    /\ \A i \in 1..Len(chars) : \E d \in 1..10 : DecimalDigits[d] = chars[i]

\* the number a string of decimal digits without leading zeros denotes
RECURSIVE DecimalOf(_)
DecimalOf(chars) ==
    IF chars = <<>> THEN 0
    ELSE DecimalOf(SubSeq(chars, 1, Len(chars) - 1)) * 10
            + (CHOOSE d \in 1..10 : DecimalDigits[d] = chars[Len(chars)]) - 1

\* the positions of a string of decimal digits that hold another digit than 0
NonZeroDigits(chars) == {i \in 1..Len(chars) : chars[i] # "0"}

\* the number a non-empty string of decimal digits denotes: that of its digits
\* from the first one that is not 0
Decimal(chars) ==
    IF NonZeroDigits(chars) = {} THEN 0
    ELSE DecimalOf(SubSeq(chars,
                          CHOOSE i \in NonZeroDigits(chars) :
                              \A j \in NonZeroDigits(chars) : i <= j,
                          Len(chars)))

\* the string is M:SS, digits on both sides of its colon at position k
IsMinSec(chars, k) ==
    /\ k \in 1..Len(chars)
    /\ chars[k] = ":"
    /\ AllDigits(SubSeq(chars, 1, k - 1))
    /\ AllDigits(SubSeq(chars, k + 1, Len(chars)))

\* what the claim says of one clock value
ClockParsedAsClaimed(clock) ==
    /\ parse_clock(clock) = PyNone \/ parse_clock(clock).t = "int"
    /\ clock.t # "str" => parse_clock(clock) = PyNone
    /\ clock.t = "str" =>
          /\ \A k \in 1..Len(clock.s) :
                IsMinSec(clock.s, k) =>
                    parse_clock(clock) =
                        PyInt(Decimal(SubSeq(clock.s, 1, k - 1)) * 60
                                 + Decimal(SubSeq(clock.s, k + 1, Len(clock.s))))
          /\ AllDigits(clock.s) => parse_clock(clock) = PyInt(Decimal(clock.s))
          /\ clock.s = <<>> => parse_clock(clock) = PyNone
          /\ (\E i \in 1..Len(clock.s) : clock.s[i] = "x") => parse_clock(clock) = PyNone
          /\ Cardinality({i \in 1..Len(clock.s) : clock.s[i] = ":"}) > 1 =>
                parse_clock(clock) = PyNone
          /\ (clock.s # <<>> /\ (clock.s[1] = ":" \/ clock.s[Len(clock.s)] = ":")) =>
                parse_clock(clock) = PyNone

\* the seconds a clock has by the claim, when it is M:SS or a bare integer
ClaimedSeconds(chars) ==
    IF AllDigits(chars) THEN Decimal(chars)
    ELSE Decimal(SubSeq(chars, 1, (CHOOSE k \in 1..Len(chars) : IsMinSec(chars, k)) - 1)) * 60
            + Decimal(SubSeq(chars, (CHOOSE k \in 1..Len(chars) : IsMinSec(chars, k)) + 1,
                             Len(chars)))

\* a single ground-truth event whose clock is M:SS or a bare integer, predicted
\* by a single event of its athlete at clock "0:00"
CanonicalClockAgainstZero ==
    /\ Len(gt_events) = 1 /\ Len(pred_events) = 1
    /\ gt_events[1].athlete = pred_events[1].athlete
    /\ pred_events[1].match_clock = Clock000
    /\ gt_events[1].match_clock.t = "str"
    /\ \/ AllDigits(gt_events[1].match_clock.s)
       \/ \E k \in 1..Len(gt_events[1].match_clock.s) :
             IsMinSec(gt_events[1].match_clock.s, k)

\* C14: parse_clock maps "M:SS" to M*60+SS and a bare integer string to that
\* integer, maps an empty or unparsable value to None and never raises;
\* parse_clock("8:45") = 525, parse_clock("") = None, parse_clock("45") = 45. The
\* seconds are those the evaluation works with: against a prediction at "0:00"
\* the event is matched when they are within the tolerance and they are its
\* clock error.
C14_ParseClock ==
    /\ parse_clock(PyStr(<<"8", ":", "4", "5">>)) = PyInt(525)
    /\ parse_clock(EmptyStr) = PyNone
    /\ parse_clock(PyStr(<<"4", "5">>)) = PyInt(45)
    /\ \A i \in 1..Len(EventsOf(gt_data)) :
          ClockParsedAsClaimed(GetOr(EventsOf(gt_data)[i].match_clock, EmptyStr))
    /\ (AlignmentBuilt /\ CanonicalClockAgainstZero) =>
          /\ IsMatchedPairing(matches[1])
                <=> ClaimedSeconds(gt_events[1].match_clock.s) <= clock_tolerance
          /\ ("clock_accuracy" \in DOMAIN report /\ IsMatchedPairing(matches[1])) =>
                report.clock_accuracy.max_error = ClaimedSeconds(gt_events[1].match_clock.s)

\* what the code does of the claim for one clock value: M:SS and a bare
\* integer are parsed as claimed when no side has more digits than int()
\* converts, and are None when one has
ClockParsedWithinLimit(clock) ==
    /\ parse_clock(clock) = PyNone \/ parse_clock(clock).t = "int"
    /\ clock.t # "str" => parse_clock(clock) = PyNone
    /\ clock.t = "str" =>
          /\ \A k \in 1..Len(clock.s) :
                IsMinSec(clock.s, k) =>
                    parse_clock(clock) =
                        IF k - 1 <= MaxStrDigits /\ Len(clock.s) - k <= MaxStrDigits
                        THEN PyInt(Decimal(SubSeq(clock.s, 1, k - 1)) * 60
                                      + Decimal(SubSeq(clock.s, k + 1, Len(clock.s))))
                        ELSE PyNone
          /\ AllDigits(clock.s) =>
                parse_clock(clock) = IF Len(clock.s) <= MaxStrDigits
                                     THEN PyInt(Decimal(clock.s))
                                     ELSE PyNone

\* the behaviour of parse_clock behind C14's divergence: the three examples and
\* every clock of the inputs, the long ones included
ParseClockWithinLimit ==
    /\ parse_clock(PyStr(<<"8", ":", "4", "5">>)) = PyInt(525)
    /\ parse_clock(EmptyStr) = PyNone
    /\ parse_clock(PyStr(<<"4", "5">>)) = PyInt(45)
    /\ \A i \in 1..Len(EventsOf(gt_data)) :
          ClockParsedWithinLimit(GetOr(EventsOf(gt_data)[i].match_clock, EmptyStr))

----------------------------------------------------------------------------
(* Properties of the evaluation of two documents *)

\* the events of the prediction as evaluate reads them, before normalisation
RawPredEvents == EventsOf(EvaluateAnalysis(result_data))

\* C15: evaluate normalises the events of both documents with the names of the
\* ground truth, never with those of the prediction: a prediction event and a
\* ground-truth event with the same raw athlete get the same identity, and an
\* athlete given by a name of the ground truth gets the identity of that name.
C15_BothNormalizedWithGtNames ==
    pc \notin {"normalize", "raised"} =>
        /\ Len(pred_events) = Len(RawPredEvents)
        /\ \A i \in 1..Len(pred_events) : \A j \in 1..Len(gt_events) :
              RawPredEvents[i].athlete = EventsOf(gt_data)[j].athlete
                 => pred_events[i].athlete = gt_events[j].athlete
        /\ \A i \in 1..Len(pred_events) :
              RawPredEvents[i].athlete
                    \notin {PyStr(<<"1">>), PyStr(<<"2">>), PyInt(1), PyInt(2)} =>
                 /\ RawPredEvents[i].athlete = GtName1
                       => pred_events[i].athlete = PyStr(<<"1">>)
                 /\ (RawPredEvents[i].athlete = GtName2
                        /\ RawPredEvents[i].athlete # GtName1)
                       => pred_events[i].athlete = PyStr(<<"2">>)

\* C15 witness: the prediction lists the two names the other way round and
\* labels its event with the first name of the ground truth, its own second
\* name; the event got the identity "1" on both sides.
C15_Witness ==
    /\ pc = "match"
    /\ Len(pred_events) = 1 /\ Len(gt_events) = 1
    /\ RawPredEvents[1].athlete = GtName1
    /\ RawPredEvents[1].athlete = result_data.analysis.athlete_2_name
    /\ RawPredEvents[1].athlete # result_data.analysis.athlete_1_name
    /\ RawPredEvents[1].athlete \notin {PyStr(<<"1">>), PyStr(<<"2">>)}
    /\ Truthy(result_data.analysis.athlete_1_name)
    /\ pred_events[1].athlete = PyStr(<<"1">>)
    /\ gt_events[1].athlete = PyStr(<<"1">>)

\* the analysis fields compute_match_level_metrics compares with the ground truth
ComparedAnalysis == MatchLevelAnalysis(result_data)

\* the keys of the match-level result that hold an equality boolean
CorrectKeys ==
    {"final_score_correct", "winner_correct",
     "athlete_1_name_correct", "athlete_2_name_correct"}

\* the four equality booleans of the match-level result are those of the
\* documents, a missing field read as ""
MatchLevelBooleans ==
    /\ CorrectKeys \subseteq DOMAIN report.match_level
    /\ report.match_level.final_score_correct
          = (GetOr(gt_data.final_score, EmptyStr)
                = GetOr(ComparedAnalysis.final_score, EmptyStr))
    /\ report.match_level.winner_correct
          = (GetOr(gt_data.winner, EmptyStr) = GetOr(ComparedAnalysis.winner, EmptyStr))
    /\ report.match_level.athlete_1_name_correct
          = (GetOr(gt_data.athlete_1_name, EmptyStr)
                = GetOr(ComparedAnalysis.athlete_1_name, EmptyStr))
    /\ report.match_level.athlete_2_name_correct
          = (GetOr(gt_data.athlete_2_name, EmptyStr)
                = GetOr(ComparedAnalysis.athlete_2_name, EmptyStr))

\* the compared final scores and winners are in the match-level result
MatchLevelScoreAndWinnerValues ==
    /\ {"gt_final_score", "pred_final_score", "gt_winner", "pred_winner"}
          \subseteq DOMAIN report.match_level
    /\ report.match_level.gt_final_score = GetOr(gt_data.final_score, EmptyStr)
    /\ report.match_level.pred_final_score = GetOr(ComparedAnalysis.final_score, EmptyStr)
    /\ report.match_level.gt_winner = GetOr(gt_data.winner, EmptyStr)
    /\ report.match_level.pred_winner = GetOr(ComparedAnalysis.winner, EmptyStr)

\* C16 as claimed: the match-level result holds an equality boolean for final
\* score, winner, athlete_1 name and athlete_2 name, and for each of the four
\* comparisons the two compared values: eight values besides the four booleans.
C16_MatchLevelBooleansAndValues ==
    "match_level" \in DOMAIN report =>
        /\ MatchLevelBooleans
        /\ MatchLevelScoreAndWinnerValues
        /\ Cardinality(DOMAIN report.match_level \ CorrectKeys) = 8

\* what holds of the match-level result: the four booleans, and the compared
\* values of the final score and of the winner only
MatchLevelAsComputed ==
    "match_level" \in DOMAIN report =>
        /\ MatchLevelBooleans
        /\ MatchLevelScoreAndWinnerValues
        /\ Cardinality(DOMAIN report.match_level \ CorrectKeys) = 4

\* every pairing of the alignment is a false positive, one per prediction, in order
AllFalsePositives ==
    /\ Len(matches) = Len(pred_events)
    /\ \A i \in 1..Len(matches) :
          matches[i] = MatchResult(PyNone, PyInt(i - 1), PyNone, pred_events[i])

\* every pairing of the alignment is a false negative, one per ground-truth
\* event, in order
AllFalseNegatives ==
    /\ Len(matches) = Len(gt_events)
    /\ \A i \in 1..Len(matches) :
          matches[i] = MatchResult(PyInt(i - 1), PyNone, gt_events[i], PyNone)

\* C17: a missing events list is read as the empty sequence and a missing name
\* as "", and the evaluation raises nothing: without ground-truth events every
\* prediction is a false positive, without prediction events every ground-truth
\* event is a false negative, and precision, recall and f1 are 0.
C17_MissingEventsAndNamesDefault ==
    /\ pc # "raised"
    /\ pc # "normalize" =>
          /\ ~gt_data.has_events => gt_events = <<>>
          /\ ~EvaluateAnalysis(result_data).has_events => pred_events = <<>>
          /\ Len(gt_events) = Len(gt_data.events)
          /\ \A i \in 1..Len(gt_events) :
                gt_data.events[i].athlete = PyStr(<<"B", "o">>) =>
                    gt_events[i].athlete =
                        IF gt_data.athlete_2_name = Missing
                        THEN PyStr(<<"1">>) ELSE PyStr(<<"2">>)
    /\ (AlignmentBuilt /\ gt_events = <<>>) => AllFalsePositives
    /\ (AlignmentBuilt /\ pred_events = <<>>) => AllFalseNegatives
    /\ ("detection" \in DOMAIN report /\ (gt_events = <<>> \/ pred_events = <<>>)) =>
          /\ report.detection.true_positives = 0
          /\ report.detection.false_negatives = Len(gt_events)
          /\ report.detection.false_positives = Len(pred_events)
          /\ report.detection.precision = FZero
          /\ report.detection.recall = FZero
          /\ report.detection.f1 = FZero

\* C17 witness: a ground truth without names and without an events list was
\* evaluated to the end against two predictions: two false positives, rates 0.
C17_Witness ==
    /\ pc = "done"
    /\ ~gt_data.has_events
    /\ gt_data.athlete_1_name = Missing /\ gt_data.athlete_2_name = Missing
    /\ Len(pred_events) = 2
    /\ AllFalsePositives
    /\ report.detection.false_positives = 2
    /\ report.detection.recall = FZero

----------------------------------------------------------------------------
(* Properties of the greedy pass *)

\* C18: among the qualifying predictions at the same, minimal time difference
\* from a ground-truth event, the one with the lowest prediction index is
\* chosen.
C18_TieToLowestIndex ==
    \A k \in 1..gt_idx :
        matches[k].pred_index # PyNone =>
            \A q \in Eligible(k) :
                TimeDiff(gt_events[k], pred_events[q + 1]).n
                      = TimeDiff(gt_events[k], pred_events[matches[k].pred_index.n + 1]).n
                   => matches[k].pred_index.n <= q

\* C18 witness: two predictions both 10 seconds from the ground-truth event, at
\* tolerance 10; the first was chosen.
C18_Witness ==
    /\ gt_idx >= 1
    /\ Eligible(1) = {0, 1}
    /\ TimeDiff(gt_events[1], pred_events[1]).n = 10
    /\ TimeDiff(gt_events[1], pred_events[2]).n = 10
    /\ matches[1].pred_index = PyInt(0)

\* the prediction indices that some matched pairing holds
ConsumedIndices ==
    {matches[i].pred_index.n : i \in {j \in 1..Len(matches) : IsMatchedPairing(matches[j])}}

\* the prediction indices recorded as false positives
FalsePositiveIndices ==
    {matches[i].pred_index.n : i \in {j \in 1..Len(matches) : IsFalsePositive(matches[j])}}

\* C19: the pairing of a ground-truth event is a false negative exactly when,
\* as the event was processed, no unconsumed prediction of its athlete was
\* within the tolerance; no false positive is recorded before all ground-truth
\* events are processed, and then a prediction index is a false positive
\* exactly when it was never consumed.
C19_FalseNegativesAndFalsePositives ==
    /\ \A k \in 1..gt_idx :
          /\ matches[k].gt_index = PyInt(k - 1)
          /\ IsFalseNegative(matches[k]) <=> Eligible(k) = {}
    /\ used_pred_indices = ConsumedIndices
    /\ pc = "match" => (Len(matches) = gt_idx /\ FalsePositiveIndices = {})
    /\ AlignmentBuilt =>
          /\ gt_idx = Len(gt_events)
          /\ \A p \in PredIndices :
                p \in FalsePositiveIndices <=> p \notin ConsumedIndices
          /\ \A i \in 1..Len(matches) :
                IsFalsePositive(matches[i]) =>
                    /\ i > Len(gt_events)
                    /\ matches[i].pred_event = pred_events[matches[i].pred_index.n + 1]
                    /\ matches[i].gt_event = PyNone

\* C19 witness: of two ground-truth events of one athlete the first took the
\* only prediction within the tolerance; the second is a false negative
\* although a prediction of its athlete is left, too far away, and that
\* prediction is the one false positive.
C19_Witness ==
    /\ AlignmentBuilt
    /\ Len(gt_events) = 2 /\ Len(pred_events) = 2
    /\ IsMatchedPairing(matches[1])
    /\ IsFalseNegative(matches[2])
    /\ gt_events[2].athlete = gt_events[1].athlete
    /\ \A p \in PredIndices : pred_events[p + 1].athlete = gt_events[2].athlete
    /\ Cardinality(ConsumedIndices) = 1
    /\ Cardinality(FalsePositiveIndices) = 1
    /\ \A p \in FalsePositiveIndices :
          TimeDiff(gt_events[2], pred_events[p + 1]).n > clock_tolerance

\* the pairings recorded for the ground-truth events processed so far are those
\* of match_events on these events alone: the events after them play no part
DecidedFromPrefix ==
    \A k \in 1..gt_idx :
        matches[k] = match_events(SubSeq(gt_events, 1, k), pred_events, clock_tolerance)[k]

\* a step of the evaluation neither revises a recorded pairing nor frees a
\* consumed prediction nor goes back in the ground truth
PassOnlyAdvances ==
    /\ used_pred_indices \subseteq used_pred_indices'
    /\ gt_idx <= gt_idx'
    /\ Len(matches) <= Len(matches')
    /\ \A i \in 1..Len(matches) : matches'[i] = matches[i]

\* a prediction consumed by an earlier ground-truth event is in no later pairing
NoReuseByLaterEvent ==
    \A i, j \in 1..gt_idx :
        (i < j /\ matches[i].pred_index # PyNone)
            => matches[j].pred_index # matches[i].pred_index

\* C20: match_events is one greedy pass from the first ground-truth event to
\* the last: the consumed prediction indices only grow, the pairing of event i
\* depends on the events up to i and on the predictions alone and is never
\* revised, and a prediction an earlier event took is not available to a later
\* one, even where another assignment has more matched pairings.
C20_SingleGreedyPass ==
    /\ [](DecidedFromPrefix /\ NoReuseByLaterEvent)
    /\ [][PassOnlyAdvances]_vars

\* C20 witness: the first ground-truth event took, on a tie, the one prediction
\* the second could have had and left it unmatched, although pairing the first
\* with the second prediction and the second with the first matches both.
C20_Witness ==
    /\ AlignmentBuilt
    /\ Len(gt_events) = 2 /\ Len(pred_events) = 2
    /\ matches[1].pred_index = PyInt(0)
    /\ IsFalseNegative(matches[2])
    /\ TimeDiff(gt_events[1], pred_events[2]).n <= clock_tolerance
    /\ TimeDiff(gt_events[2], pred_events[1]).n <= clock_tolerance
    /\ TimeDiff(gt_events[2], pred_events[2]).n > clock_tolerance

----------------------------------------------------------------------------
(* Properties of the precedence of the normalisation rules *)

\* the characters that delimit the tokens of a name
TokenDelimiters ==
    {" ", "\t", "\n", "\r", "\f", "\\x0b", "\\x1c", "\\x1d", "\\x1e", "\\x1f"}

\* characters from..to of the name are its first whitespace-delimited token
IsFirstTokenAt(name, from, to) ==
    /\ 1 <= from /\ from <= to /\ to <= Len(name)
    /\ \A i \in 1..(from - 1) : name[i] \in TokenDelimiters
    /\ \A i \in from..to : name[i] \notin TokenDelimiters
    /\ to = Len(name) \/ name[to + 1] \in TokenDelimiters

\* the name is non-empty and its first token occurs in the text of the athlete
\* value (None reads "None", an integer its decimal digits)
FirstTokenOccurs(name, athlete) ==
    /\ name.t = "str"
    /\ \E from, to \in 1..Len(name.s) :
          /\ IsFirstTokenAt(name.s, from, to)
          /\ \E k \in 0..(Len(StrOf(athlete)) - (to - from + 1)) :
                \A i \in 0..(to - from) : StrOf(athlete)[k + i + 1] = name.s[from + i]

\* the identity the rules give, the first matching rule deciding
IdentityByPrecedence(athlete, name_1, name_2) ==
    IF athlete \in {PyStr(<<"1">>), PyStr(<<"2">>)} THEN athlete
    ELSE IF athlete = PyInt(1) THEN PyStr(<<"1">>)
    ELSE IF athlete = PyInt(2) THEN PyStr(<<"2">>)
    ELSE IF athlete = name_1 THEN PyStr(<<"1">>)
    ELSE IF athlete = name_2 THEN PyStr(<<"2">>)
    ELSE IF FirstTokenOccurs(name_1, athlete) THEN PyStr(<<"1">>)
    ELSE IF FirstTokenOccurs(name_2, athlete) THEN PyStr(<<"2">>)
    ELSE PyStr(<<"1">>)

\* every event of the ground truth has the identity the rules give its athlete
RulesInPrecedence ==
    pc \notin {"normalize", "raised"} =>
        /\ Len(gt_events) = Len(EventsOf(gt_data))
        /\ \A i \in 1..Len(gt_events) :
              gt_events[i].athlete
                 = IdentityByPrecedence(EventsOf(gt_data)[i].athlete, GtName1, GtName2)

\* the athlete value contains the first tokens of both names
ContainsBothFirstTokens(athlete) ==
    FirstTokenOccurs(GtName1, athlete) /\ FirstTokenOccurs(GtName2, athlete)

\* C21 as claimed: the rules apply in the fixed precedence, and hence an
\* athlete label that contains the first tokens of both names resolves to "1"
\* unless it equals name_2 exactly.
C21_PrecedenceAndBothTokens_Original ==
    /\ RulesInPrecedence
    /\ pc \notin {"normalize", "raised"} =>
          \A i \in 1..Len(gt_events) :
              (/\ ContainsBothFirstTokens(EventsOf(gt_data)[i].athlete)
               /\ EventsOf(gt_data)[i].athlete # GtName2)
                 => gt_events[i].athlete = PyStr(<<"1">>)

\* C21 amended: the rules apply in the fixed precedence, and an athlete label
\* other than the numeral 2 (the string "2" or the integer 2) that contains the
\* first tokens of both names resolves to "1" unless it equals name_2 exactly.
C21_PrecedenceAndBothTokens ==
    /\ RulesInPrecedence
    /\ pc \notin {"normalize", "raised"} =>
          \A i \in 1..Len(gt_events) :
              (/\ ContainsBothFirstTokens(EventsOf(gt_data)[i].athlete)
               /\ EventsOf(gt_data)[i].athlete # GtName2
               /\ EventsOf(gt_data)[i].athlete \notin {PyStr(<<"2">>), PyInt(2)})
                 => gt_events[i].athlete = PyStr(<<"1">>)

\* C21 witness: an athlete label that is neither a numeral nor one of the two
\* names and contains the first tokens of both, the names being different,
\* was resolved to "1".
C21_Witness ==
    /\ pc = "match"
    /\ Len(gt_events) = 1
    /\ gt_data.events[1].athlete.t = "str"
    /\ gt_data.events[1].athlete \notin {PyStr(<<"1">>), PyStr(<<"2">>), GtName1, GtName2}
    /\ GtName1 # GtName2
    /\ ContainsBothFirstTokens(gt_data.events[1].athlete)
    /\ ~FirstTokenOccurs(GtName1, GtName2)
    /\ gt_events[1].athlete = PyStr(<<"1">>)

----------------------------------------------------------------------------
(* Properties that relate the sections of the metrics document *)

\* the entries of the reported alignment with matched = true
ReportedMatched == {i \in 1..Len(report.matches) : report.matches[i].matched}

\* C22: for the alignment of the normalised sequences G and P the counts
\* satisfy TP + FN = |G| and TP + FP = |P|, the alignment has |G| + |P| - TP
\* entries, and TP is the number of entries reported with matched = true.
C22_CountsAddUp ==
    /\ "detection" \in DOMAIN report =>
          /\ report.detection.true_positives + report.detection.false_negatives
                = Len(gt_events)
          /\ report.detection.true_positives + report.detection.false_positives
                = Len(pred_events)
          /\ Len(matches)
                = Len(gt_events) + Len(pred_events) - report.detection.true_positives
    /\ "matches" \in DOMAIN report =>
          /\ Len(report.matches) = Len(matches)
          /\ Cardinality(ReportedMatched) = report.detection.true_positives

\* C22 witness: two ground-truth events and two predictions evaluated to the
\* end with one matched pairing: TP = FN = FP = 1 and three entries, one of
\* them reported as matched.
C22_Witness ==
    /\ pc = "done"
    /\ Len(gt_events) = 2 /\ Len(pred_events) = 2
    /\ report.detection.true_positives = 1
    /\ report.detection.false_negatives = 1
    /\ report.detection.false_positives = 1
    /\ Len(report.matches) = 3
    /\ Cardinality(ReportedMatched) = 1

\* C23: every clock error compute_clock_accuracy collects from an alignment of
\* match_events is at most the tolerance, so whenever the section is present
\* 0 <= min_error <= mean_absolute_error <= max_error <= clock_tolerance, and
\* matched_with_clock <= TP.
C23_ClockErrorsWithinTolerance ==
    /\ \A i \in ClockedPositions : ClockErrorAt(i) <= clock_tolerance
    /\ ("clock_accuracy" \in DOMAIN report /\ report.clock_accuracy # EmptyDict) =>
          /\ 0 <= report.clock_accuracy.min_error
          /\ report.clock_accuracy.mean_absolute_error.den > 0
          /\ report.clock_accuracy.min_error * report.clock_accuracy.mean_absolute_error.den
                <= report.clock_accuracy.mean_absolute_error.num
          /\ report.clock_accuracy.mean_absolute_error.num
                <= report.clock_accuracy.max_error
                      * report.clock_accuracy.mean_absolute_error.den
          /\ report.clock_accuracy.max_error <= clock_tolerance
          /\ report.clock_accuracy.matched_with_clock
                <= report.detection.true_positives

\* C23 witness: two matched pairings, one on two clocks exactly the tolerance
\* apart, the other on timestamps for a clock that does not parse: one clock
\* error, equal to the tolerance, and TP = 2.
C23_Witness ==
    /\ "clock_accuracy" \in DOMAIN report
    /\ report.clock_accuracy # EmptyDict
    /\ clock_tolerance = 10
    /\ report.clock_accuracy.max_error = 10
    /\ report.clock_accuracy.min_error = 10
    /\ report.clock_accuracy.matched_with_clock = 1
    /\ report.detection.true_positives = 2

----------------------------------------------------------------------------
(* Properties of the missing timestamps *)

\* the event has neither a clock that parses nor a timestamp_seconds key
LacksClockAndStamp(event) ==
    ClockFails(event) /\ event.timestamp_seconds = Missing

\* one of the two events has no timestamp_seconds and the other is at second
\* limit at most
OneStampWithin(gt_event, pred_event, limit) ==
    \/ /\ gt_event.timestamp_seconds = Missing
       /\ pred_event.timestamp_seconds.t = "int"
       /\ pred_event.timestamp_seconds.n <= limit
    \/ /\ pred_event.timestamp_seconds = Missing
       /\ gt_event.timestamp_seconds.t = "int"
       /\ gt_event.timestamp_seconds.n <= limit

\* one of the two events has no timestamp_seconds and the other is after second
\* limit
OneStampBeyond(gt_event, pred_event, limit) ==
    \/ /\ gt_event.timestamp_seconds = Missing
       /\ pred_event.timestamp_seconds.t = "int"
       /\ pred_event.timestamp_seconds.n > limit
    \/ /\ pred_event.timestamp_seconds = Missing
       /\ gt_event.timestamp_seconds.t = "int"
       /\ gt_event.timestamp_seconds.n > limit

\* C24: in the timestamp fallback an event without a timestamp_seconds key is
\* at second 0: a ground-truth event and an unconsumed prediction of its athlete
\* that both have neither a parseable clock nor a timestamp are 0 seconds
\* apart, so the event is matched, to that prediction or to one before it, at
\* every tolerance >= 0; where one of the two has no timestamp, the event is
\* matched when the timestamp of the other is <= tolerance and is not matched
\* to that prediction when it is greater.
C24_MissingTimestampIsZero ==
    \A k \in 1..gt_idx : \A q \in FallbackCandidates(k) :
        /\ (LacksClockAndStamp(gt_events[k]) /\ LacksClockAndStamp(pred_events[q + 1])) =>
              /\ matches[k].pred_index # PyNone
              /\ matches[k].pred_index.n <= q
        /\ OneStampWithin(gt_events[k], pred_events[q + 1], clock_tolerance) =>
              matches[k].pred_index # PyNone
        /\ OneStampBeyond(gt_events[k], pred_events[q + 1], clock_tolerance) =>
              matches[k].pred_index # PyInt(q)

\* C24 witness: at tolerance 0 a ground-truth event with the clock "x" and no
\* timestamp passed over a prediction at second 1 and was matched to the
\* prediction with an empty clock and no timestamp.
C24_Witness ==
    /\ gt_idx >= 1
    /\ clock_tolerance = 0
    /\ Len(pred_events) = 2
    /\ gt_events[1].match_clock = ClockX
    /\ LacksClockAndStamp(gt_events[1])
    /\ pred_events[1].timestamp_seconds = PyInt(1)
    /\ pred_events[2].match_clock = EmptyStr
    /\ LacksClockAndStamp(pred_events[2])
    /\ matches[1].pred_index = PyInt(1)

====
